---- MODULE Spec2Model ----
(***************************************************************************)
(* Settlement engine of tw-mahjong-score (src/engine.py, src/scoring.py,   *)
(* src/models.py).  compute_game_state folds an ordered event list into a  *)
(* ledger, the dealer/round state (rw, ds, dr), the house-rake accumulator *)
(* d_acc and per-player counters.  One step of the model is one iteration  *)
(* of the loop `for idx, ev in enumerate(events, start=1)`.                *)
(*                                                                         *)
(* Strings of the source are written in ASCII:                             *)
(*   "Draw" = 流局   "SelfDraw" = 自摸   "Discard" = 放槍   "Hu" = 胡牌      *)
(*   "FalseWin" = 詐胡   "FalseSelfDraw" = 詐摸                             *)
(***************************************************************************)
EXTENDS Integers, Sequences, FiniteSets, TLC

VARIABLES
    settings,   \* the Settings object handed to compute_game_state
    cum,        \* cum[p]: running balance of player p
    rw,         \* round-wind index
    ds,         \* dealer seat
    dr,         \* dealer run
    d_acc,      \* house rake collected so far
    stats,      \* stats[p][k]: behavioural counters
    idx,        \* number of events taken from the input so far
    nrows,      \* len(rows)
    row,        \* rows[-1], the ledger row appended last
    ntrace,     \* len(debug_steps)
    ev,         \* the input record taken last
    delta,      \* the delta vector of the iteration run last
    nadv,       \* number of calls of advance_dealer() so far
    aborted,    \* an exception left compute_game_state
    \* Whole invocations, kept by SpecReplay only (the other specifications
    \* draw the records one at a time and keep nrows, row and ntrace):
    events_raw, \* the list handed to compute_game_state
    events,     \* normalize_events(events_raw), line 49
    pc,         \* "start": at line 49, "loop": in the loop, "done": returned
    ledger,     \* rows, as the dicts appended to it
    trace,      \* debug_steps
    who,        \* the invocation whose locals the variables above hold
    parked,     \* the locals of the invocations not running now
    returned,   \* what each invocation returned
    \* The day's archive and totals of the application, kept by SpecDaily only:
    sessions,   \* st.session_state.sessions: the archived matches
    daily_sum,  \* compute_daily_total(...), as rendered last
    daily_stats, \* compute_daily_stats(...), as rendered last
    \* The record page's session state, kept by SpecUI only:
    hand_active,   \* st.session_state.hand_active: a match is in progress
    seat_locked,   \* st.session_state.seat_locked: seat clicks select
    selected_seat  \* st.session_state.selected_seat: a seat index or None

locals == <<settings, cum, rw, ds, dr, d_acc, stats, idx, nrows, row, ntrace,
            ev, delta, nadv, aborted>>
replay == <<events_raw, events, pc, ledger, trace, who, parked, returned>>
daily == <<sessions, daily_sum, daily_stats>>
ui == <<hand_active, seat_locked, selected_seat>>
vars == <<locals, replay, daily, ui>>

(***************************************************************************)
(* Bounds of the model.                                                    *)
(***************************************************************************)
MaxEvents == 2          \* length of the event lists of Spec
MaxMatchEvents == 18    \* length of the event lists of SpecMatch
MaxSettleEvents == 2    \* length of the event lists of SpecSettle
MaxReplayEvents == 2    \* SpecReplay: length of the list of the invocation checked
MaxOtherEvents == 1     \* SpecReplay: length of the list of the other invocation
MaxCopyEvents == 2      \* SpecCopies: length of the free event lists
MaxDailyEvents == 1     \* SpecDaily: events recorded in one match
MaxSessions == 2        \* SpecDaily: matches archived
MaxRun == 2             \* SpecMatch: no event list drives dr above this
MaxScored == 3          \* SpecMatch: at most this many counted events

n == 4
Players == 0 .. (n - 1)
StatKeys == {"SelfDraw", "Hu", "Discard", "FalseWin", "FalseSelfDraw"}

(***************************************************************************)
(* Input values.  A numeric field of a record is an int, a string of       *)
(* decimal digits, some other value int() rejects (None, "abc"), or the    *)
(* key is absent from the record.                                          *)
(***************************************************************************)
Absent == "<absent>"
NoVal == [tag |-> "absent", val |-> 0]
Bad == [tag |-> "bad", val |-> 0]
Int_(v) == [tag |-> "int", val |-> v]
Digits(v) == [tag |-> "digits", val |-> v]

\* dict.get(key, default): the default replaces an absent key only.
Get(x, default) == IF x.tag = "absent" THEN default ELSE x

\* dict.get(key): None (which int() rejects) replaces an absent key.
GetNone(x) == IF x.tag = "absent" THEN Bad ELSE x

safe_int(x, default) ==
    IF x.tag = "int" THEN x.val
    ELSE IF x.tag = "digits" THEN x.val
    ELSE default

\* The _type tag ev_to_dict writes into its copy of the record.
ev_to_dict(e) ==
    IF e.result # Absent THEN [e EXCEPT !.type = "hand"]
    ELSE IF e.p_type # Absent THEN [e EXCEPT !.type = "penalty"]
    ELSE [e EXCEPT !.type = IF e.type = Absent THEN "unknown" ELSE e.type]

hand_label_seat0(rw_idx, dealer_seat) ==
    IF rw_idx >= 4 THEN [kind |-> "ended", wind |-> 0, seat |-> 0]
    ELSE [kind |-> "hand", wind |-> IF rw_idx < 3 THEN rw_idx ELSE 3,
          seat |-> dealer_seat]

\* hand_label: "ended" from round wind 4 on, else WINDS[min(rw,3)] and seat+1.
hand_label(rw_idx, dealer_seat) ==
    IF rw_idx >= 4 THEN [kind |-> "ended", wind |-> 0, seat |-> 0]
    ELSE [kind |-> "hand", wind |-> IF rw_idx < 3 THEN rw_idx ELSE 3,
          seat |-> dealer_seat + 1]

Ended_late(rw_idx) == rw_idx >= 5

\* line 75: the match is over
Ended(rw_idx) == rw_idx >= 4

amount_A_nobase(s, tai) == tai * s.tai_value

amount_A(s, tai) == s.base + tai * s.tai_value

dealer_bonus_tai_norun(dealer_run) == 1

dealer_bonus_tai(dealer_run) == 1 + 2 * dealer_run

advance_dealer_keeprun(st) ==
    LET nds == (st.ds + 1) % 4
    IN  [rw |-> IF nds = 0 THEN st.rw + 1 ELSE st.rw, ds |-> nds, dr |-> st.dr]

advance_dealer_nowrap(st) ==
    [rw |-> st.rw, ds |-> (st.ds + 1) % 4, dr |-> 0]

advance_dealer_earlywrap(st) ==
    LET nds == (st.ds + 1) % 4
    IN  [rw |-> IF nds = 3 THEN st.rw + 1 ELSE st.rw, ds |-> nds, dr |-> 0]

\* lines 63-68
advance_dealer(st) ==
    LET nds == (st.ds + 1) % 4
    IN  [rw |-> IF nds = 0 THEN st.rw + 1 ELSE st.rw, ds |-> nds, dr |-> 0]

retain_dealer_twice(st) == [st EXCEPT !.dr = @ + 2]
retain_dealer_norun(st) == st

\* dr += 1 (lines 102, 120, 158, 216)
retain_dealer(st) == [st EXCEPT !.dr = @ + 1]

(***************************************************************************)
(* Python lists of length 4: an index in -4..-1 addresses from the end, an *)
(* index outside -4..3 raises IndexError.                                  *)
(***************************************************************************)
IndexOk(i) == i \in (0 - n) .. (n - 1)
PyIdx(i) == IF i < 0 THEN i + n ELSE i
Valid(i) == 0 <= i /\ i < n

Zero == [p \in Players |-> 0]
AddAt(d, i, v) == [d EXCEPT ![PyIdx(i)] = @ + v]
Bump_other(st, p, k) ==
    IF Valid(p) THEN [st EXCEPT ![(p + 1) % 4][k] = @ + 1] ELSE st
Bump(st, p, k) == IF Valid(p) THEN [st EXCEPT ![p][k] = @ + 1] ELSE st

Max(a, b) == IF a > b THEN a ELSE b
Min(a, b) == IF a < b THEN a ELSE b

rake_take_uncapped(s, acc) == s.dong_per_self_draw

\* lines 134-136: what one self-draw moves to the house.
rake_take(s, acc) ==
    IF s.dong_per_self_draw > 0 /\ s.dong_cap_total > 0
    THEN Min(s.dong_per_self_draw, Max(0, s.dong_cap_total - acc))
    ELSE 0

(***************************************************************************)
(* One iteration of the loop of compute_game_state, as a function of the   *)
(* current state and the normalised record e.  The outcome holds the delta *)
(* vector, the dealer state, the rake total and the counters the iteration *)
(* leaves, or raised = TRUE when an IndexError leaves the function.        *)
(***************************************************************************)
dealer_pid == settings.seat_players[ds]
bonus == dealer_bonus_tai(dr)
cur == [rw |-> rw, ds |-> ds, dr |-> dr]

Transition_retain(tr, st) ==
    IF tr = "advance" THEN advance_dealer(st) ELSE retain_dealer(st)

\* tr names the transition the branch applies: advance_dealer(), dr += 1, or none
Transition(tr, st) ==
    IF tr = "advance" THEN advance_dealer(st)
    ELSE IF tr = "retain" THEN retain_dealer(st)
    ELSE st

Outcome(dl, tr, acc, sts, desc) ==
    [raised |-> FALSE, delta |-> dl, tr |-> tr, st |-> Transition(tr, cur),
     d_acc |-> acc, stats |-> sts, desc |-> desc]
Raise ==
    [raised |-> TRUE, delta |-> Zero, tr |-> "none", st |-> cur, d_acc |-> d_acc,
     stats |-> stats, desc |-> "IndexError"]

settle_draw_retain == Outcome(Zero, "retain", d_acc, stats, "draw")

\* lines 99-104
settle_draw ==
    Outcome(Zero,
            IF settings.draw_keeps_dealer THEN "retain" ELSE "advance",
            d_acc, stats, "draw")

\* lines 106-140
settle_self_draw(w, tai) ==
    LET A_dealer == amount_A(settings,
                      IF settings.auto_dealer_bonus THEN tai + bonus ELSE tai)
        dealer_pay == amount_A(settings, tai + bonus)
        other_pay == amount_A(settings, tai)
        d1 == IF w = dealer_pid
              THEN [p \in Players |-> IF p = w THEN 3 * A_dealer ELSE 0 - A_dealer]
              ELSE [p \in Players |->
                      IF p = w THEN dealer_pay + 2 * other_pay
                      ELSE IF p = dealer_pid THEN 0 - dealer_pay
                      ELSE 0 - other_pay]
        take == rake_take(settings, d_acc)
        raked == take > 0 /\ Valid(w)
        d2 == IF raked
              THEN AddAt(AddAt(d1, w, 0 - take), settings.host_player_id, take)
              ELSE d1
    IN  IF w # dealer_pid /\ ~IndexOk(w) THEN Raise      \* names[w], line 124
        ELSE Outcome(d2,
                     IF w = dealer_pid THEN "retain" ELSE "advance",
                     IF raked THEN d_acc + take ELSE d_acc,
                     Bump(stats, w, "SelfDraw"),
                     IF w = dealer_pid THEN "selfdraw_dealer" ELSE "selfdraw")

\* lines 142-169
settle_discard(w, l, tai) ==
    LET A == amount_A(settings, tai)
        A_dealer == amount_A(settings,
                      IF settings.auto_dealer_bonus THEN tai + bonus ELSE tai)
        pay == IF w = dealer_pid THEN A_dealer
               ELSE IF l = dealer_pid THEN amount_A(settings, tai + bonus)
               ELSE A
        sts == Bump(Bump(stats, w, "Hu"), l, "Discard")
    IN  IF w = l THEN Outcome(Zero, "none", d_acc, stats, "error_same")
        ELSE IF ~IndexOk(w) \/ ~IndexOk(l) THEN Raise    \* names[w], names[l]
        ELSE Outcome(AddAt(AddAt(Zero, w, pay), l, 0 - pay),
                     IF w = dealer_pid THEN "retain" ELSE "advance",
                     d_acc, sts,
                     IF w = dealer_pid THEN "discard_dealer"
                     ELSE IF l = dealer_pid THEN "discard_from_dealer"
                     ELSE "discard")

\* lines 90-171
settle_hand(e) ==
    LET w == safe_int(GetNone(e.winner_id), 0 - 1)
        l == safe_int(GetNone(e.loser_id), 0 - 1)
        tai == safe_int(Get(e.tai, Int_(0)), 0)
    IN  IF e.result = "Draw" THEN settle_draw
        ELSE IF e.result = "SelfDraw" THEN settle_self_draw(w, tai)
        ELSE IF e.result \in {"Discard", "Hu"} THEN settle_discard(w, l, tai)
        ELSE Outcome(Zero, "none", d_acc, stats, "unknown_result")

after_penalty_retain(dealer_paid) == "retain"
after_penalty_swapped(dealer_paid) == IF dealer_paid THEN "retain" ELSE "advance"

\* lines 213-216
after_penalty(dealer_paid) == IF dealer_paid THEN "advance" ELSE "retain"

\* lines 179-187
settle_false_win(off, vic, amt) ==
    IF ~IndexOk(off) \/ ~IndexOk(vic) THEN Raise         \* names[off], names[vic]
    ELSE Outcome(AddAt(AddAt(Zero, off, 0 - amt), vic, amt),
                 after_penalty(off = dealer_pid),
                 d_acc, Bump(stats, off, "FalseWin"), "false_win")

\* lines 189-211
settle_false_self_draw(off, amt) ==
    LET dealer_extra == dealer_bonus_tai(dr) * settings.tai_value
        others == {p \in Players : p # off /\ p # dealer_pid}
        pay_dealer == amt + dealer_extra
        sts == Bump(stats, off, "FalseSelfDraw")
    IN  IF off = dealer_pid
        THEN Outcome([p \in Players |-> IF p = off THEN 0 - 3 * amt ELSE amt],
                     after_penalty(TRUE), d_acc, sts, "false_self_draw_dealer")
        ELSE IF ~IndexOk(off) THEN Raise                 \* delta[off], line 205
        ELSE Outcome([p \in Players |->
                        (IF p \in others THEN amt ELSE 0)
                        + (IF p = dealer_pid THEN pay_dealer ELSE 0)
                        - (IF p = PyIdx(off)
                           THEN Cardinality(others) * amt + pay_dealer ELSE 0)],
                     after_penalty(FALSE), d_acc, sts, "false_self_draw")

\* lines 173-216
settle_penalty(e) ==
    LET amt == safe_int(Get(e.amount, Int_(0)), 0)
        off == safe_int(Get(e.offender_id, Int_(0)), 0)
        vic == safe_int(Get(e.victim_id, Int_(0)), 0)
    IN  IF e.p_type = "FalseWin" THEN settle_false_win(off, vic, amt)
        ELSE IF e.p_type = "FalseSelfDraw" THEN settle_false_self_draw(off, amt)
        ELSE Outcome(Zero, after_penalty(FALSE), d_acc, stats, "")

\* lines 90, 173, 217: the branch taken on the record's _type
Settle(e) ==
    IF e.type = "hand" THEN settle_hand(e)
    ELSE IF e.type = "penalty" THEN settle_penalty(e)
    ELSE Outcome(Zero, "none", d_acc, stats, "unsupported")

Label(e) ==
    IF e.type \in {"hand", "penalty"} THEN hand_label(rw, ds)
    ELSE [kind |-> "unknown", wind |-> 0, seat |-> 0]

(***************************************************************************)
(* Inputs: the configurations and the event records the lists are drawn    *)
(* from.  Settings follow src/models.py; the settings page keeps base,     *)
(* tai_value and the rake amounts >= 0 and the host among the players.     *)
(***************************************************************************)
SeatList(a, b, c, d) == [i \in 0 .. 3 |-> <<a, b, c, d>>[i + 1]]

MkSettings(base, tv, seats, keep, auto, host, per, cap) ==
    [base |-> base, tai_value |-> tv, seat_players |-> seats,
     draw_keeps_dealer |-> keep, auto_dealer_bonus |-> auto,
     host_player_id |-> host, dong_per_self_draw |-> per,
     dong_cap_total |-> cap]

Configs ==
    {MkSettings(300, 100, seats, keep, auto, 2, rake[1], rake[2]) :
        seats \in {SeatList(0, 1, 2, 3), SeatList(2, 0, 3, 1)},
        keep \in BOOLEAN, auto \in BOOLEAN,
        rake \in {<<0, 0>>, <<50, 80>>}}

\* tai_value = 0: every hand is worth the base stake whoever deals
MatchConfigs ==
    {MkSettings(300, 0, SeatList(0, 1, 2, 3), keep, TRUE, 2, 50, 80) :
        keep \in BOOLEAN}

HandRec(result, w, l, tai) ==
    [result |-> result, winner_id |-> w, loser_id |-> l, tai |-> tai,
     p_type |-> Absent, offender_id |-> NoVal, victim_id |-> NoVal,
     amount |-> NoVal, type |-> Absent]

PenRec(p_type, off, vic, amt) ==
    [result |-> Absent, winner_id |-> NoVal, loser_id |-> NoVal, tai |-> NoVal,
     p_type |-> p_type, offender_id |-> off, victim_id |-> vic,
     amount |-> amt, type |-> Absent]

\* a record with neither result nor p_type; t is its own "_type" key, if any
BareRec(t) == [HandRec(Absent, NoVal, NoVal, NoVal) EXCEPT !.type = t]

IdxVals == {NoVal} \cup {Int_(i) : i \in (0 - 1) .. 4}
TaiVals == {NoVal, Bad, Int_(0), Int_(1), Digits(2)}
AmtVals == {NoVal, Bad, Int_(100)}

Events ==
    {HandRec("Draw", NoVal, NoVal, NoVal), HandRec("Other", Int_(1), Int_(0), Int_(1)),
     HandRec("Hu", Int_(1), Int_(0), Int_(2)), PenRec("Other", Int_(1), NoVal, Int_(100))}
    \cup {HandRec("SelfDraw", w, NoVal, t) : w \in IdxVals, t \in TaiVals}
    \cup {HandRec("Discard", w, l, Int_(1)) : w \in IdxVals, l \in IdxVals}
    \cup {PenRec("FalseWin", off, vic, Int_(100)) : off \in IdxVals, vic \in IdxVals}
    \cup {PenRec("FalseSelfDraw", off, NoVal, a) : off \in IdxVals, a \in AmtVals}
    \cup {BareRec(t) : t \in {Absent, "hand", "penalty", "unknown", "note"}}

MatchEvents ==
    {HandRec("Draw", NoVal, NoVal, NoVal), HandRec("Other", Int_(1), Int_(0), Int_(1)),
     HandRec("SelfDraw", Int_(0), NoVal, Int_(1)), HandRec("SelfDraw", Int_(1), NoVal, Int_(1)),
     HandRec("Discard", Int_(1), Int_(0), Int_(1)),
     HandRec("Discard", Int_(1), Int_(1), Int_(1)),
     PenRec("FalseWin", Int_(0), Int_(2), Int_(100)),
     PenRec("FalseSelfDraw", Int_(1), NoVal, Int_(100)),
     PenRec("Other", Int_(1), NoVal, Int_(100)), BareRec(Absent)}

\* the player slots 0..3
SlotVals == {Int_(i) : i \in 0 .. 3}

SettleEvents ==
    {HandRec("Draw", NoVal, NoVal, NoVal), HandRec("Other", Int_(1), Int_(0), Int_(1)),
     PenRec("Other", Int_(1), NoVal, Int_(100)), BareRec(Absent),
     HandRec("Hu", Int_(1), Int_(0), Digits(2)),
     HandRec("Discard", NoVal, NoVal, Int_(1))}
    \cup {HandRec("SelfDraw", w, NoVal, t) : w \in SlotVals, t \in {Int_(1), Digits(2)}}
    \cup {HandRec("Discard", w, l, Int_(1)) : w \in SlotVals, l \in SlotVals}
    \cup {PenRec("FalseWin", off, vic, Int_(100)) : off \in SlotVals, vic \in {Int_(0), Int_(2)}}
    \cup {PenRec("FalseSelfDraw", off, NoVal, Int_(100)) : off \in SlotVals}

StatTotal(sts) ==
    LET per(p) == sts[p]["SelfDraw"] + sts[p]["Hu"] + sts[p]["Discard"]
                  + sts[p]["FalseWin"] + sts[p]["FalseSelfDraw"]
    IN  per(0) + per(1) + per(2) + per(3)

\* SpecMatch: the event lists stay within MaxRun and MaxScored.
Bounded == dr <= MaxRun /\ StatTotal(stats) <= MaxScored

(***************************************************************************)
(* The state compute_game_state starts its loop in (lines 55-61).          *)
(***************************************************************************)
NoRow == [num |-> 0, label |-> [kind |-> "none", wind |-> 0, seat |-> 0],
          desc |-> "", bal |-> Zero]

InitState ==
    /\ cum = Zero
    /\ rw = 0 /\ ds = 0 /\ dr = 0 /\ d_acc = 0
    /\ stats = [p \in Players |-> [k \in StatKeys |-> 0]]
    /\ idx = 0 /\ nrows = 0 /\ row = NoRow /\ ntrace = 0
    /\ ev = BareRec(Absent)
    /\ delta = Zero
    /\ nadv = 0
    /\ aborted = FALSE

\* one invocation, its list not held
NoReplay ==
    /\ events_raw = <<>> /\ events = <<>> /\ pc = "loop"
    /\ ledger = <<>> /\ trace = <<>>
    /\ who = "main" /\ parked = <<>> /\ returned = <<>>

\* no archive
NoDaily == sessions = <<>> /\ daily_sum = <<>> /\ daily_stats = <<>>

\* init_state lines 368-405: the defaults of the record page
None == 0 - 1
NoUI == hand_active = FALSE /\ seat_locked = FALSE /\ selected_seat = None

Init == settings \in Configs /\ InitState /\ NoReplay /\ NoDaily /\ NoUI
InitMatch == settings \in MatchConfigs /\ InitState /\ NoReplay /\ NoDaily /\ NoUI
InitSettle == settings \in Configs /\ InitState /\ NoReplay /\ NoDaily /\ NoUI

(***************************************************************************)
(* The loop body.  Take(raw) is the bookkeeping every iteration shares:    *)
(* the record is taken from the list and normalised.                       *)
(***************************************************************************)
Take(raw) ==
    /\ ~aborted
    /\ ev' = raw
    /\ idx' = idx + 1
    /\ UNCHANGED settings

\* lines 75-85: the match has ended, the record is only listed
Ignored(E) ==
    \E raw \in E :
        /\ Take(raw)
        /\ Ended(rw)
        /\ delta' = Zero
        /\ row' = [num |-> idx + 1, label |-> [kind |-> "ended", wind |-> 0, seat |-> 0],
                   desc |-> "ignored", bal |-> cum]
        /\ nrows' = nrows + 1
        /\ ntrace' = ntrace + 1
        /\ UNCHANGED <<cum, rw, ds, dr, d_acc, stats, nadv, aborted>>

\* lines 87-234: the record is settled; an IndexError leaves the function
Process(raw) ==
    \E e \in {ev_to_dict(raw)} :
    \E R \in {Settle(e)} :
        /\ Take(raw)
        /\ ~Ended(rw)
        /\ IF R.raised
           THEN /\ aborted' = TRUE
                /\ UNCHANGED <<cum, rw, ds, dr, d_acc, stats, nrows, row, ntrace, delta, nadv>>
           ELSE /\ aborted' = FALSE
                /\ delta' = R.delta
                /\ cum' = [p \in Players |-> cum[p] + R.delta[p]]
                /\ rw' = R.st.rw /\ ds' = R.st.ds /\ dr' = R.st.dr
                /\ nadv' = IF R.tr = "advance" THEN nadv + 1 ELSE nadv
                /\ d_acc' = R.d_acc
                /\ stats' = R.stats
                /\ row' = [num |-> idx + 1, label |-> Label(e), desc |-> R.desc,
                           bal |-> [p \in Players |-> cum[p] + R.delta[p]]]
                /\ nrows' = nrows + 1
                /\ ntrace' = ntrace + 1

IsHand(raw, results) ==
    LET e == ev_to_dict(raw) IN e.type = "hand" /\ e.result \in results
IsPenalty(raw, kinds) ==
    LET e == ev_to_dict(raw) IN e.type = "penalty" /\ e.p_type \in kinds

HandDraw(E) == \E raw \in E : IsHand(raw, {"Draw"}) /\ Process(raw)
HandSelfDraw(E) == \E raw \in E : IsHand(raw, {"SelfDraw"}) /\ Process(raw)
HandDiscardWin(E) == \E raw \in E : IsHand(raw, {"Discard", "Hu"}) /\ Process(raw)
HandOther(E) ==
    \E raw \in E :
        /\ ev_to_dict(raw).type = "hand"
        /\ ~IsHand(raw, {"Draw", "SelfDraw", "Discard", "Hu"})
        /\ Process(raw)
PenaltyFalseWin(E) == \E raw \in E : IsPenalty(raw, {"FalseWin"}) /\ Process(raw)
PenaltyFalseSelfDraw(E) ==
    \E raw \in E : IsPenalty(raw, {"FalseSelfDraw"}) /\ Process(raw)
PenaltyOther(E) ==
    \E raw \in E :
        /\ ev_to_dict(raw).type = "penalty"
        /\ ~IsPenalty(raw, {"FalseWin", "FalseSelfDraw"})
        /\ Process(raw)
Unsupported(E) ==
    \E raw \in E : ev_to_dict(raw).type \notin {"hand", "penalty"} /\ Process(raw)

\* Spec: event lists of at most MaxEvents records drawn from Events.  No such
\* list ends a match, so the branch of line 75 is not among its steps.
Step(A) == idx < MaxEvents /\ A /\ UNCHANGED <<replay, daily, ui>>

Next ==
    \/ Step(HandDraw(Events))
    \/ Step(HandSelfDraw(Events))
    \/ Step(HandDiscardWin(Events))
    \/ Step(HandOther(Events))
    \/ Step(PenaltyFalseWin(Events))
    \/ Step(PenaltyFalseSelfDraw(Events))
    \/ Step(PenaltyOther(Events))
    \/ Step(Unsupported(Events))

\* SpecMatch: event lists of at most MaxMatchEvents records drawn from
\* MatchEvents, long enough to play a match to its end and past it.
MatchStep(A) == idx < MaxMatchEvents /\ A /\ Bounded' /\ UNCHANGED <<replay, daily, ui>>

NextMatch ==
    \/ MatchStep(Ignored(MatchEvents))
    \/ MatchStep(HandDraw(MatchEvents))
    \/ MatchStep(HandSelfDraw(MatchEvents))
    \/ MatchStep(HandDiscardWin(MatchEvents))
    \/ MatchStep(HandOther(MatchEvents))
    \/ MatchStep(PenaltyFalseWin(MatchEvents))
    \/ MatchStep(PenaltyFalseSelfDraw(MatchEvents))
    \/ MatchStep(PenaltyOther(MatchEvents))
    \/ MatchStep(Unsupported(MatchEvents))

\* SpecSettle: event lists of at most MaxSettleEvents records drawn from
\* SettleEvents (records naming players 0..3, and a discard naming nobody),
\* under every configuration of Configs.
SettleStep(A) == idx < MaxSettleEvents /\ A /\ UNCHANGED <<replay, daily, ui>>

NextSettle ==
    \/ SettleStep(HandDraw(SettleEvents))
    \/ SettleStep(HandSelfDraw(SettleEvents))
    \/ SettleStep(HandDiscardWin(SettleEvents))
    \/ SettleStep(HandOther(SettleEvents))
    \/ SettleStep(PenaltyFalseWin(SettleEvents))
    \/ SettleStep(PenaltyFalseSelfDraw(SettleEvents))
    \/ SettleStep(PenaltyOther(SettleEvents))
    \/ SettleStep(Unsupported(SettleEvents))

Spec == Init /\ [][Next]_vars
SpecMatch == InitMatch /\ [][NextMatch]_vars
SpecSettle == InitSettle /\ [][NextSettle]_vars

(***************************************************************************)
(* SpecReplay: whole invocations of compute_game_state.  The list is held  *)
(* in events_raw, line 49 normalises it, the loop consumes it, and the     *)
(* function returns (line 246) or an exception leaves it.  Four            *)
(* invocations run in one process: A1 and A2 one after the other, each     *)
(* alone (A2 on a list of its own or on the first k records of the list of *)
(* A1, k up to the whole list), then B on the arguments                    *)
(* of A1 and C on those of A2, their steps interleaved in every order.     *)
(* Everything compute_game_state assigns is a local of the call (lines     *)
(* 49-61), so an invocation that is not running keeps its locals in parked.*)
(***************************************************************************)
Invocations == {"A1", "A2", "B", "C"}

\* Settings.players (src/models.py): four display names, nothing keeps them apart
DefaultPlayers == [p \in Players |-> <<"P1", "P2", "P3", "P4">>[p + 1]]
SamePlayers == [p \in Players |-> <<"P1", "P1", "P3", "P4">>[p + 1]]

Named(s, names) ==
    [base |-> s.base, tai_value |-> s.tai_value, players |-> names,
     seat_players |-> s.seat_players, draw_keeps_dealer |-> s.draw_keeps_dealer,
     auto_dealer_bonus |-> s.auto_dealer_bonus,
     host_player_id |-> s.host_player_id,
     dong_per_self_draw |-> s.dong_per_self_draw,
     dong_cap_total |-> s.dong_cap_total]

ReplayConfigs ==
    {Named(MkSettings(300, 100, SeatList(0, 1, 2, 3), FALSE, TRUE, 2, 50, 80), names) :
        names \in {DefaultPlayers, SamePlayers}}
OtherConfigs ==
    {Named(MkSettings(300, 100, SeatList(2, 0, 3, 1), TRUE, TRUE, 2, 0, 0), DefaultPlayers)}

ReplayEvents ==
    {HandRec("Draw", NoVal, NoVal, NoVal),
     HandRec("SelfDraw", Int_(1), NoVal, Int_(1)),
     HandRec("SelfDraw", Int_(4), NoVal, Int_(1)),
     [HandRec("Discard", Int_(1), Int_(0), Int_(1)) EXCEPT !.type = "penalty"],
     PenRec("FalseWin", Int_(0), Int_(2), Int_(100)),
     BareRec("penalty"), BareRec("note"), BareRec(Absent)}
OtherEvents ==
    {HandRec("SelfDraw", Int_(0), NoVal, Int_(1)),
     PenRec("FalseSelfDraw", Int_(1), NoVal, Int_(100))}

Lists(S, len) == UNION {[1 .. k -> S] : k \in 0 .. len}

\* lines 38-39
normalize_events(E) == [i \in 1 .. Len(E) |-> ev_to_dict(E[i])]

\* what the caller's list holds after line 49: ev_to_dict writes the tag into
\* d = dict(ev) (or asdict(ev), or a new dict), never into ev
caller_tagged(E) == normalize_events(E)
caller_list(E) == E

\* lines 225-226: the row dict, its balance columns keyed by names[p]; a
\* later player of the same name overwrites the column
LastNamed(names, nm) ==
    CHOOSE p \in Players :
        names[p] = nm /\ \A q \in Players : names[q] = nm => q <= p
RowDict(r, names) ==
    [num |-> r.num, label |-> r.label, desc |-> r.desc,
     cols |-> [nm \in {names[p] : p \in Players} |-> r.bal[LastNamed(names, nm)]]]

\* the locals of an invocation at its entry (lines 49-61)
Fresh(s, E) ==
    [settings |-> s, events_raw |-> E, events |-> <<>>, pc |-> "start",
     cum |-> Zero, rw |-> 0, ds |-> 0, dr |-> 0, d_acc |-> 0,
     stats |-> [p \in Players |-> [k \in StatKeys |-> 0]],
     idx |-> 0, nrows |-> 0, row |-> NoRow, ntrace |-> 0,
     ev |-> BareRec(Absent), delta |-> Zero, nadv |-> 0, aborted |-> FALSE,
     ledger |-> <<>>, trace |-> <<>>]

Enter_carried(prev, s, E) ==
    [Fresh(s, E) EXCEPT !.cum = prev.cum, !.dr = prev.dr, !.d_acc = prev.d_acc]

\* entering compute_game_state after the invocation prev ran in the process:
\* every local is assigned anew
Enter(prev, s, E) == Fresh(s, E)

Resume_shared(other, saved) == [saved EXCEPT !.stats = other.stats]

\* an invocation resumes with the locals it was suspended with, whatever the
\* invocation other did meanwhile
Resume(other, saved) == saved

Ctx ==
    [settings |-> settings, events_raw |-> events_raw, events |-> events,
     pc |-> pc, cum |-> cum, rw |-> rw, ds |-> ds, dr |-> dr, d_acc |-> d_acc,
     stats |-> stats, idx |-> idx, nrows |-> nrows, row |-> row,
     ntrace |-> ntrace, ev |-> ev, delta |-> delta, nadv |-> nadv,
     aborted |-> aborted, ledger |-> ledger, trace |-> trace]

Holds(c) ==
    /\ settings = c.settings /\ events_raw = c.events_raw /\ events = c.events
    /\ pc = c.pc /\ cum = c.cum /\ rw = c.rw /\ ds = c.ds /\ dr = c.dr
    /\ d_acc = c.d_acc /\ stats = c.stats /\ idx = c.idx /\ nrows = c.nrows
    /\ row = c.row /\ ntrace = c.ntrace /\ ev = c.ev /\ delta = c.delta
    /\ nadv = c.nadv /\ aborted = c.aborted /\ ledger = c.ledger
    /\ trace = c.trace

Load(c) ==
    /\ settings' = c.settings /\ events_raw' = c.events_raw /\ events' = c.events
    /\ pc' = c.pc /\ cum' = c.cum /\ rw' = c.rw /\ ds' = c.ds /\ dr' = c.dr
    /\ d_acc' = c.d_acc /\ stats' = c.stats /\ idx' = c.idx /\ nrows' = c.nrows
    /\ row' = c.row /\ ntrace' = c.ntrace /\ ev' = c.ev /\ delta' = c.delta
    /\ nadv' = c.nadv /\ aborted' = c.aborted /\ ledger' = c.ledger
    /\ trace' = c.trace

\* lines 236-246: the tuple returned; an exception returns nothing
NoOutput ==
    [done |-> FALSE, raised |-> FALSE, ledger_df |-> <<>>, sum_df |-> <<>>,
     stats_df |-> <<>>, rw |-> 0, ds |-> 0, dr |-> 0, d_acc |-> 0,
     debug_steps |-> <<>>]
Output ==
    IF aborted THEN [NoOutput EXCEPT !.done = TRUE, !.raised = TRUE]
    ELSE [done |-> TRUE, raised |-> FALSE, ledger_df |-> ledger,
          sum_df |-> [i \in 1 .. n |->
                        [name |-> settings.players[i - 1], total |-> cum[i - 1]]],
          stats_df |-> [i \in 1 .. n |->
                          [name |-> settings.players[i - 1], counts |-> stats[i - 1]]],
          rw |-> rw, ds |-> ds, dr |-> dr, d_acc |-> d_acc,
          debug_steps |-> trace]

InitReplay ==
    \E s1 \in ReplayConfigs, E1 \in Lists(ReplayEvents, MaxReplayEvents) :
    \E in2 \in (OtherConfigs \X Lists(OtherEvents, MaxOtherEvents))
                  \cup {<<s1, SubSeq(E1, 1, k)>> : k \in 0 .. Len(E1)} :
        /\ who = "A1"
        /\ Holds(Fresh(s1, E1))
        /\ parked = [w \in {"A2", "B", "C"} |->
                        IF w = "B" THEN Fresh(s1, E1)
                        ELSE Fresh(in2[1], in2[2])]
        /\ returned = [w \in Invocations |-> NoOutput]
        /\ NoDaily /\ NoUI

\* line 49
Normalize ==
    /\ pc = "start"
    /\ events' = normalize_events(events_raw)
    /\ events_raw' = caller_list(events_raw)
    /\ pc' = "loop"
    /\ UNCHANGED <<locals, ledger, trace, who, parked, returned, daily, ui>>

\* lines 70-234: one iteration, on the next record of the normalised list.
\* No list of SpecReplay ends a match, so line 75 is not among its steps.
Iterate ==
    /\ pc = "loop" /\ idx < Len(events)
    /\ Process(events[idx + 1])
    /\ ledger' = IF aborted' THEN ledger
                 ELSE Append(ledger, RowDict(row', settings.players))
    /\ trace' = IF aborted' THEN trace
                ELSE Append(trace, [idx |-> idx', ds |-> ds', dr |-> dr',
                                    rw |-> rw', delta |-> delta', cum |-> cum'])
    /\ UNCHANGED <<events_raw, events, pc, who, parked, returned, daily, ui>>

\* lines 236-246, or the exception reaching the caller
Return ==
    /\ pc = "loop" /\ (aborted \/ idx = Len(events))
    /\ pc' = "done"
    /\ returned' = [returned EXCEPT ![who] = Output]
    /\ UNCHANGED <<locals, events_raw, events, ledger, trace, who, parked, daily, ui>>

\* A1 and A2 run alone and to their end; B and C take turns at any point.
MayFollow(w2) ==
    IF who = "A1" THEN pc = "done" /\ w2 = "A2"
    ELSE IF who = "A2" THEN pc = "done" /\ w2 \in {"B", "C"}
    ELSE w2 \in {"B", "C"}

Switch(w2) ==
    /\ w2 # who /\ parked[w2].pc # "done" /\ MayFollow(w2)
    /\ who' = w2
    /\ parked' = [w \in Invocations \ {w2} |-> IF w = who THEN Ctx ELSE parked[w]]
    /\ Load(IF parked[w2].pc = "start"
            THEN Enter(Ctx, parked[w2].settings, parked[w2].events_raw)
            ELSE Resume(Ctx, parked[w2]))
    /\ UNCHANGED <<returned, daily, ui>>

NextReplay ==
    \/ Normalize
    \/ Iterate
    \/ Return
    \/ \E w2 \in Invocations : Switch(w2)

SpecReplay == InitReplay /\ [][NextReplay]_vars

\* lines 75-85 inside a whole invocation: past the end of the match the
\* record gets its row and its trace line and nothing else
IterateIgnored ==
    /\ pc = "loop" /\ idx < Len(events)
    /\ Ignored({events[idx + 1]})
    /\ ledger' = Append(ledger, RowDict(row', settings.players))
    /\ trace' = Append(trace, [idx |-> idx', rw |-> rw, ds |-> ds, dr |-> dr,
                               ignored |-> events[idx + 1].type])
    /\ UNCHANGED <<events_raw, events, pc, who, parked, returned, daily, ui>>

(***************************************************************************)
(* SpecCopies: the second copy of the settlement function.                 *)
(* src/mahjong_score.py carries its own safe_int, amount_A,                *)
(* dealer_bonus_tai, ev_to_dict, normalize_events and compute_game_state   *)
(* (lines 410-453, 536-751); the application calls these, not              *)
(* src/engine.py.  The app_ operators are that text; amount_A is where the *)
(* two differ (scoring.py converts the three values in one try block, the  *)
(* application converts each with safe_int).  One invocation of the engine *)
(* copy runs to its end, then one of the application copy on the same      *)
(* arguments.                                                              *)
(***************************************************************************)
\* mahjong_score.py lines 410-414
app_safe_int(x, default) ==
    IF x.tag = "int" THEN x.val
    ELSE IF x.tag = "digits" THEN x.val
    ELSE default

\* mahjong_score.py lines 429-449
app_ev_to_dict(e) ==
    IF e.result # Absent THEN [e EXCEPT !.type = "hand"]
    ELSE IF e.p_type # Absent THEN [e EXCEPT !.type = "penalty"]
    ELSE [e EXCEPT !.type = IF e.type = Absent THEN "unknown" ELSE e.type]

\* mahjong_score.py lines 452-453
app_normalize_events(E) == [i \in 1 .. Len(E) |-> app_ev_to_dict(E[i])]

\* mahjong_score.py lines 552-555
app_hand_label(rw_idx, dealer_seat) ==
    IF rw_idx >= 4 THEN [kind |-> "ended", wind |-> 0, seat |-> 0]
    ELSE [kind |-> "hand", wind |-> IF rw_idx < 3 THEN rw_idx ELSE 3,
          seat |-> dealer_seat + 1]

\* mahjong_score.py line 572
app_Ended(rw_idx) == rw_idx >= 4

app_amount_A_nobase(s, tai) ==
    app_safe_int(Int_(tai), 0) * app_safe_int(Int_(s.tai_value), 0)

\* mahjong_score.py lines 417-418: safe_int on each of base, tai, tai_value
app_amount_A(s, tai) ==
    app_safe_int(Int_(s.base), 0)
    + app_safe_int(Int_(tai), 0) * app_safe_int(Int_(s.tai_value), 0)

\* mahjong_score.py lines 421-426
app_dealer_bonus_tai(dealer_run) == 1 + 2 * dealer_run

\* mahjong_score.py lines 559-564
app_advance_dealer(st) ==
    LET nds == (st.ds + 1) % 4
    IN  [rw |-> IF nds = 0 THEN st.rw + 1 ELSE st.rw, ds |-> nds, dr |-> 0]

\* mahjong_score.py line 602
app_retain_dealer(st) == [st EXCEPT !.dr = @ + 1]

\* mahjong_score.py lines 609-610
app_Bump(st, p, k) == IF Valid(p) THEN [st EXCEPT ![p][k] = @ + 1] ELSE st

\* mahjong_score.py lines 639-641
app_rake_take(s, acc) ==
    IF s.dong_per_self_draw > 0 /\ s.dong_cap_total > 0
    THEN Min(s.dong_per_self_draw, Max(0, s.dong_cap_total - acc))
    ELSE 0

\* mahjong_score.py line 587
app_dealer_pid == settings.seat_players[ds]

\* mahjong_score.py line 588
app_bonus == app_dealer_bonus_tai(dr)

\* mahjong_score.py lines 599-606
app_Transition(tr, st) ==
    IF tr = "advance" THEN app_advance_dealer(st)
    ELSE IF tr = "retain" THEN app_retain_dealer(st)
    ELSE st

\* mahjong_score.py lines 724-738
app_Outcome(dl, tr, acc, sts, desc) ==
    [raised |-> FALSE, delta |-> dl, tr |-> tr, st |-> app_Transition(tr, cur),
     d_acc |-> acc, stats |-> sts, desc |-> desc]

\* mahjong_score.py line 688
app_Raise ==
    [raised |-> TRUE, delta |-> Zero, tr |-> "none", st |-> cur, d_acc |-> d_acc,
     stats |-> stats, desc |-> "IndexError"]

\* mahjong_score.py lines 599-606
app_settle_draw ==
    app_Outcome(Zero,
            IF settings.draw_keeps_dealer THEN "retain" ELSE "advance",
            d_acc, stats, "draw")

\* mahjong_score.py lines 608-645
app_settle_self_draw(w, tai) ==
    LET A_dealer == app_amount_A(settings,
                      IF settings.auto_dealer_bonus THEN tai + app_bonus ELSE tai)
        dealer_pay == app_amount_A(settings, tai + app_bonus)
        other_pay == app_amount_A(settings, tai)
        d1 == IF w = app_dealer_pid
              THEN [p \in Players |-> IF p = w THEN 3 * A_dealer ELSE 0 - A_dealer]
              ELSE [p \in Players |->
                      IF p = w THEN dealer_pay + 2 * other_pay
                      ELSE IF p = app_dealer_pid THEN 0 - dealer_pay
                      ELSE 0 - other_pay]
        take == app_rake_take(settings, d_acc)
        raked == take > 0 /\ Valid(w)
        d2 == IF raked
              THEN AddAt(AddAt(d1, w, 0 - take), settings.host_player_id, take)
              ELSE d1
    IN  IF w # app_dealer_pid /\ ~IndexOk(w) THEN app_Raise      \* names[w], line 124
        ELSE app_Outcome(d2,
                     IF w = app_dealer_pid THEN "retain" ELSE "advance",
                     IF raked THEN d_acc + take ELSE d_acc,
                     app_Bump(stats, w, "SelfDraw"),
                     IF w = app_dealer_pid THEN "selfdraw_dealer" ELSE "selfdraw")

\* mahjong_score.py lines 647-674
app_settle_discard(w, l, tai) ==
    LET A == app_amount_A(settings, tai)
        A_dealer == app_amount_A(settings,
                      IF settings.auto_dealer_bonus THEN tai + app_bonus ELSE tai)
        pay == IF w = app_dealer_pid THEN A_dealer
               ELSE IF l = app_dealer_pid THEN app_amount_A(settings, tai + app_bonus)
               ELSE A
        sts == app_Bump(app_Bump(stats, w, "Hu"), l, "Discard")
    IN  IF w = l THEN app_Outcome(Zero, "none", d_acc, stats, "error_same")
        ELSE IF ~IndexOk(w) \/ ~IndexOk(l) THEN app_Raise    \* names[w], names[l]
        ELSE app_Outcome(AddAt(AddAt(Zero, w, pay), l, 0 - pay),
                     IF w = app_dealer_pid THEN "retain" ELSE "advance",
                     d_acc, sts,
                     IF w = app_dealer_pid THEN "discard_dealer"
                     ELSE IF l = app_dealer_pid THEN "discard_from_dealer"
                     ELSE "discard")

\* mahjong_score.py lines 590-676
app_settle_hand(e) ==
    LET w == app_safe_int(GetNone(e.winner_id), 0 - 1)
        l == app_safe_int(GetNone(e.loser_id), 0 - 1)
        tai == app_safe_int(Get(e.tai, Int_(0)), 0)
    IN  IF e.result = "Draw" THEN app_settle_draw
        ELSE IF e.result = "SelfDraw" THEN app_settle_self_draw(w, tai)
        ELSE IF e.result \in {"Discard", "Hu"} THEN app_settle_discard(w, l, tai)
        ELSE app_Outcome(Zero, "none", d_acc, stats, "unknown_result")

\* mahjong_score.py lines 715-718
app_after_penalty(dealer_paid) == IF dealer_paid THEN "advance" ELSE "retain"

\* mahjong_score.py lines 684-691
app_settle_false_win(off, vic, amt) ==
    IF ~IndexOk(off) \/ ~IndexOk(vic) THEN app_Raise         \* names[off], names[vic]
    ELSE app_Outcome(AddAt(AddAt(Zero, off, 0 - amt), vic, amt),
                 app_after_penalty(off = app_dealer_pid),
                 d_acc, app_Bump(stats, off, "FalseWin"), "false_win")

\* mahjong_score.py lines 693-713
app_settle_false_self_draw(off, amt) ==
    LET dealer_extra == app_dealer_bonus_tai(dr) * settings.tai_value
        others == {p \in Players : p # off /\ p # app_dealer_pid}
        pay_dealer == amt + dealer_extra
        sts == app_Bump(stats, off, "FalseSelfDraw")
    IN  IF off = app_dealer_pid
        THEN app_Outcome([p \in Players |-> IF p = off THEN 0 - 3 * amt ELSE amt],
                     app_after_penalty(TRUE), d_acc, sts, "false_self_draw_dealer")
        ELSE IF ~IndexOk(off) THEN app_Raise                 \* delta[off], line 205
        ELSE app_Outcome([p \in Players |->
                        (IF p \in others THEN amt ELSE 0)
                        + (IF p = app_dealer_pid THEN pay_dealer ELSE 0)
                        - (IF p = PyIdx(off)
                           THEN Cardinality(others) * amt + pay_dealer ELSE 0)],
                     app_after_penalty(FALSE), d_acc, sts, "false_self_draw")

\* mahjong_score.py lines 678-718
app_settle_penalty(e) ==
    LET amt == app_safe_int(Get(e.amount, Int_(0)), 0)
        off == app_safe_int(Get(e.offender_id, Int_(0)), 0)
        vic == app_safe_int(Get(e.victim_id, Int_(0)), 0)
    IN  IF e.p_type = "FalseWin" THEN app_settle_false_win(off, vic, amt)
        ELSE IF e.p_type = "FalseSelfDraw" THEN app_settle_false_self_draw(off, amt)
        ELSE app_Outcome(Zero, app_after_penalty(FALSE), d_acc, stats, "")

\* mahjong_score.py lines 587-721
app_Settle(e) ==
    IF e.type = "hand" THEN app_settle_hand(e)
    ELSE IF e.type = "penalty" THEN app_settle_penalty(e)
    ELSE app_Outcome(Zero, "none", d_acc, stats, "unsupported")

\* mahjong_score.py lines 591-720
app_Label(e) ==
    IF e.type \in {"hand", "penalty"} THEN app_hand_label(rw, ds)
    ELSE [kind |-> "unknown", wind |-> 0, seat |-> 0]

\* mahjong_score.py lines 572-583
app_Ignored(E) ==
    \E raw \in E :
        /\ Take(raw)
        /\ app_Ended(rw)
        /\ delta' = Zero
        /\ row' = [num |-> idx + 1, label |-> [kind |-> "ended", wind |-> 0, seat |-> 0],
                   desc |-> "ignored", bal |-> cum]
        /\ nrows' = nrows + 1
        /\ ntrace' = ntrace + 1
        /\ UNCHANGED <<cum, rw, ds, dr, d_acc, stats, nadv, aborted>>

\* mahjong_score.py lines 587-738
app_Process(raw) ==
    \E e \in {app_ev_to_dict(raw)} :
    \E R \in {app_Settle(e)} :
        /\ Take(raw)
        /\ ~app_Ended(rw)
        /\ IF R.raised
           THEN /\ aborted' = TRUE
                /\ UNCHANGED <<cum, rw, ds, dr, d_acc, stats, nrows, row, ntrace, delta, nadv>>
           ELSE /\ aborted' = FALSE
                /\ delta' = R.delta
                /\ cum' = [p \in Players |-> cum[p] + R.delta[p]]
                /\ rw' = R.st.rw /\ ds' = R.st.ds /\ dr' = R.st.dr
                /\ nadv' = IF R.tr = "advance" THEN nadv + 1 ELSE nadv
                /\ d_acc' = R.d_acc
                /\ stats' = R.stats
                /\ row' = [num |-> idx + 1, label |-> app_Label(e), desc |-> R.desc,
                           bal |-> [p \in Players |-> cum[p] + R.delta[p]]]
                /\ nrows' = nrows + 1
                /\ ntrace' = ntrace + 1

\* mahjong_score.py lines 727-730
app_RowDict(r, names) ==
    [num |-> r.num, label |-> r.label, desc |-> r.desc,
     cols |-> [nm \in {names[p] : p \in Players} |-> r.bal[LastNamed(names, nm)]]]

\* mahjong_score.py lines 740-751
app_Output ==
    IF aborted THEN [NoOutput EXCEPT !.done = TRUE, !.raised = TRUE]
    ELSE [done |-> TRUE, raised |-> FALSE, ledger_df |-> ledger,
          sum_df |-> [i \in 1 .. n |->
                        [name |-> settings.players[i - 1], total |-> cum[i - 1]]],
          stats_df |-> [i \in 1 .. n |->
                          [name |-> settings.players[i - 1], counts |-> stats[i - 1]]],
          rw |-> rw, ds |-> ds, dr |-> dr, d_acc |-> d_acc,
          debug_steps |-> trace]

\* mahjong_score.py line 537
app_Normalize ==
    /\ pc = "start"
    /\ events' = app_normalize_events(events_raw)
    /\ events_raw' = caller_list(events_raw)
    /\ pc' = "loop"
    /\ UNCHANGED <<locals, ledger, trace, who, parked, returned, daily, ui>>

\* mahjong_score.py lines 566-738
app_Iterate ==
    /\ pc = "loop" /\ idx < Len(events)
    /\ app_Process(events[idx + 1])
    /\ ledger' = IF aborted' THEN ledger
                 ELSE Append(ledger, app_RowDict(row', settings.players))
    /\ trace' = IF aborted' THEN trace
                ELSE Append(trace, [idx |-> idx', ds |-> ds', dr |-> dr',
                                    rw |-> rw', delta |-> delta', cum |-> cum'])
    /\ UNCHANGED <<events_raw, events, pc, who, parked, returned, daily, ui>>

\* mahjong_score.py lines 572-583
app_IterateIgnored ==
    /\ pc = "loop" /\ idx < Len(events)
    /\ app_Ignored({events[idx + 1]})
    /\ ledger' = Append(ledger, app_RowDict(row', settings.players))
    /\ trace' = Append(trace, [idx |-> idx', rw |-> rw, ds |-> ds, dr |-> dr,
                               ignored |-> events[idx + 1].type])
    /\ UNCHANGED <<events_raw, events, pc, who, parked, returned, daily, ui>>

\* mahjong_score.py lines 740-751
app_Return ==
    /\ pc = "loop" /\ (aborted \/ idx = Len(events))
    /\ pc' = "done"
    /\ returned' = [returned EXCEPT ![who] = app_Output]
    /\ UNCHANGED <<locals, events_raw, events, ledger, trace, who, parked, daily, ui>>

CopyConfigs ==
    {Named(MkSettings(300, 100, SeatList(2, 0, 3, 1), keep, auto, 1, 50, 80), names) :
        keep \in BOOLEAN, auto \in BOOLEAN, names \in {DefaultPlayers, SamePlayers}}

CopyEvents ==
    {HandRec("Draw", NoVal, NoVal, NoVal),
     HandRec("Other", Int_(1), Int_(0), Int_(1)),
     HandRec("SelfDraw", Int_(2), NoVal, Int_(1)),
     HandRec("SelfDraw", Int_(0), NoVal, Digits(2)),
     HandRec("SelfDraw", Int_(4), NoVal, Bad),
     HandRec("Discard", Int_(2), Int_(0), Int_(1)),
     HandRec("Hu", Int_(1), Int_(2), Int_(0)),
     HandRec("Discard", Int_(1), Int_(1), Int_(1)),
     HandRec("Discard", Int_(0), NoVal, Int_(1)),
     PenRec("FalseWin", Int_(2), Int_(0), Int_(100)),
     PenRec("FalseWin", Int_(0), NoVal, Digits(100)),
     PenRec("FalseSelfDraw", Int_(2), NoVal, Int_(100)),
     PenRec("FalseSelfDraw", Int_(1), NoVal, Int_(100)),
     PenRec("Other", Int_(1), NoVal, Int_(100)),
     BareRec("penalty"), BareRec(Absent)}

\* the free lists, and sixteen draws followed by at most one more record:
\* where draws pass the deal on, the last record comes after the end
CopyLists ==
    Lists(CopyEvents, MaxCopyEvents)
    \cup {[i \in 1 .. 16 |-> HandRec("Draw", NoVal, NoVal, NoVal)] \o t :
            t \in Lists(CopyEvents, 1)}

InitCopies ==
    \E s \in CopyConfigs, E \in CopyLists :
        /\ who = "engine"
        /\ Holds(Fresh(s, E))
        /\ parked = [w \in {"app"} |-> Fresh(s, E)]
        /\ returned = [w \in {"engine", "app"} |-> NoOutput]
        /\ NoDaily /\ NoUI

EngineNormalize == who = "engine" /\ Normalize
EngineIterate == who = "engine" /\ Iterate
EngineIterateIgnored == who = "engine" /\ IterateIgnored
EngineReturn == who = "engine" /\ Return

\* the engine copy has returned; the application copy is called
CallApp ==
    /\ who = "engine" /\ pc = "done"
    /\ who' = "app"
    /\ parked' = [w \in {"engine"} |-> Ctx]
    /\ Load(Enter(Ctx, parked["app"].settings, parked["app"].events_raw))
    /\ UNCHANGED <<returned, daily, ui>>

AppNormalize == who = "app" /\ app_Normalize
AppIterate == who = "app" /\ app_Iterate
AppIterateIgnored == who = "app" /\ app_IterateIgnored
AppReturn == who = "app" /\ app_Return

NextCopies ==
    \/ EngineNormalize
    \/ EngineIterate
    \/ EngineIterateIgnored
    \/ EngineReturn
    \/ CallApp
    \/ AppNormalize
    \/ AppIterate
    \/ AppIterateIgnored
    \/ AppReturn

SpecCopies == InitCopies /\ [][NextCopies]_vars

(***************************************************************************)
(* SpecDaily: the day's totals of the application (src/mahjong_score.py).  *)
(* Events are recorded into the live match (events_raw is the live log,    *)
(* st.session_state.events) and taken back, the live match is archived     *)
(* into st.session_state.sessions, names are edited on the settings page,  *)
(* and every rerun of the page renders compute_daily_total and             *)
(* compute_daily_stats over the archive and the live match                 *)
(* (mahjong_score.py:536-751 is the compute_game_state of src/engine.py).  *)
(***************************************************************************)
DailyConfigs ==
    {Named(MkSettings(300, 100, SeatList(0, 1, 2, 3), FALSE, TRUE, 2, 50, 80),
           DefaultPlayers)}
DailyEvents ==
    {HandRec("SelfDraw", Int_(0), NoVal, Int_(1)),
     PenRec("FalseWin", Int_(1), Int_(2), Int_(100))}
DailyNames == {"P1", "P2", "Q"}     \* what the first name is edited to

\* lines 237-244 of engine.py: sum_df and stats_df, one row per player
SumDf(names, c) ==
    [i \in 1 .. n |-> [name |-> names[i - 1], total |-> c[i - 1]]]
StatsDf(names, st) ==
    [i \in 1 .. n |-> [name |-> names[i - 1], counts |-> st[i - 1]]]

SumRows_last(sess) ==
    IF sess = <<>> THEN <<>> ELSE sess[Len(sess)].sum_df

RECURSIVE SumRows(_)
SumRows(sess) ==
    IF sess = <<>> THEN <<>> ELSE Head(sess).sum_df \o SumRows(Tail(sess))
RECURSIVE StatsRows(_)
StatsRows(sess) ==
    IF sess = <<>> THEN <<>> ELSE Head(sess).stats_df \o StatsRows(Tail(sess))

\* total_scores[nm] after the loops of lines 461-475 over rows
RECURSIVE NamedTotal(_, _)
NamedTotal(rows, nm) ==
    IF rows = <<>> THEN 0
    ELSE (IF Head(rows).name = nm THEN Head(rows).total ELSE 0)
         + NamedTotal(Tail(rows), nm)
RECURSIVE NamedCount(_, _, _)
NamedCount(rows, nm, k) ==
    IF rows = <<>> THEN 0
    ELSE (IF Head(rows).name = nm THEN Head(rows).counts[k] ELSE 0)
         + NamedCount(Tail(rows), nm, k)

\* lines 455-485: a dict keyed by the current names; a row whose name is not
\* a key is skipped (line 465, 473)
compute_daily_total(names, sess, cur_sum_df) ==
    [nm \in {names[p] : p \in Players} |->
        NamedTotal(SumRows(sess) \o cur_sum_df, nm)]

\* lines 488-530
compute_daily_stats(names, sess, cur_stats_df) ==
    [nm \in {names[p] : p \in Players} |->
        [k \in StatKeys |-> NamedCount(StatsRows(sess) \o cur_stats_df, nm, k)]]

\* page_record lines 953-956, page_overview lines 1254-1258: what the rerun
\* after an action renders
Rendered ==
    /\ UNCHANGED ui
    /\ daily_sum' = compute_daily_total(settings'.players, sessions',
                                        SumDf(settings'.players, cum'))
    /\ daily_stats' = compute_daily_stats(settings'.players, sessions',
                                          StatsDf(settings'.players, stats'))

InitDaily ==
    /\ settings \in DailyConfigs /\ InitState /\ NoReplay /\ NoUI
    /\ sessions = <<>>
    /\ daily_sum = compute_daily_total(settings.players, <<>>,
                                       SumDf(settings.players, cum))
    /\ daily_stats = compute_daily_stats(settings.players, <<>>,
                                         StatsDf(settings.players, stats))

\* The rerun after a change of the live log calls compute_game_state on the
\* whole log.  Its result is a function of its arguments, so on the log
\* without its last record it is what it was before that record was
\* appended: parked keeps those locals, one entry per record of the log.
Before == [Ctx EXCEPT !.settings = <<>>, !.events_raw = <<>>]

\* page_record lines 1042, 1111, 1140: an event is appended to the live match
Record(e) ==
    /\ idx < MaxDailyEvents
    /\ Process(e)
    /\ events_raw' = Append(events_raw, e)
    /\ parked' = Append(parked, Before)
    /\ UNCHANGED <<events, pc, ledger, trace, who, returned, sessions>>
    /\ Rendered

\* page_record lines 1146-1150: the last event is popped from the live log
Undo ==
    /\ events_raw # <<>>
    /\ events_raw' = SubSeq(events_raw, 1, Len(events_raw) - 1)
    /\ parked' = SubSeq(parked, 1, Len(parked) - 1)
    /\ LET c == parked[Len(parked)]
       IN  /\ cum' = c.cum /\ rw' = c.rw /\ ds' = c.ds /\ dr' = c.dr
           /\ d_acc' = c.d_acc /\ stats' = c.stats /\ idx' = c.idx
           /\ nrows' = c.nrows /\ row' = c.row /\ ntrace' = c.ntrace
           /\ ev' = c.ev /\ delta' = c.delta /\ nadv' = c.nadv
           /\ aborted' = c.aborted
    /\ UNCHANGED <<settings, events, pc, ledger, trace, who, returned, sessions>>
    /\ Rendered

\* page_settings lines 763, 790-800: a name is edited and saved
SaveSettings(nm) ==
    /\ settings' = [settings EXCEPT !.players[0] = nm]
    /\ UNCHANGED <<cum, rw, ds, dr, d_acc, stats, idx, nrows, row, ntrace,
                   ev, delta, nadv, aborted>>
    /\ UNCHANGED <<replay, sessions>>
    /\ Rendered

\* lines 981-984 and 898-915: the live match is archived and a new one begins
end_current_session ==
    /\ idx # 0 /\ Len(sessions) < MaxSessions
    /\ sessions' = Append(sessions,
                          [sum_df |-> SumDf(settings.players, cum),
                           stats_df |-> StatsDf(settings.players, stats)])
    /\ cum' = Zero /\ rw' = 0 /\ ds' = 0 /\ dr' = 0 /\ d_acc' = 0
    /\ stats' = [p \in Players |-> [k \in StatKeys |-> 0]]
    /\ idx' = 0 /\ nrows' = 0 /\ row' = NoRow /\ ntrace' = 0
    /\ ev' = BareRec(Absent) /\ delta' = Zero /\ nadv' = 0 /\ aborted' = FALSE
    /\ events_raw' = <<>> /\ parked' = <<>>
    /\ UNCHANGED <<settings, events, pc, ledger, trace, who, returned>>
    /\ Rendered

NextDaily ==
    \/ \E e \in DailyEvents : Record(e)
    \/ \E nm \in DailyNames : SaveSettings(nm)
    \/ end_current_session
    \/ Undo

SpecDaily == InitDaily /\ [][NextDaily]_vars

(***************************************************************************)
(* SpecUI: the record page of the application (src/mahjong_score.py,       *)
(* page_record and render_seat_map).  A click runs one handler, which      *)
(* changes st.session_state and calls st.rerun(); the rerun replays the    *)
(* live log (events_raw) through the application's compute_game_state with *)
(* the current settings, synchronises the flags (lines 961-966) and        *)
(* renders the page.  A handler is enabled on a rendered page only         *)
(* (pc = "done"); who names the handler whose rerun is in progress;        *)
(* returned is what compute_game_state returned to the page rendered last  *)
(* (a rerun starts from nothing; across a seat swap it is kept, to compare *)
(* the page after the swap with the page before); parked is the snapshot   *)
(* in the cloud, as far as it differs from the session state: the          *)
(* hand_active it was saved with.  The archive is SpecDaily's and is left  *)
(* out here: no handler of the page reads it.  Line 951 calls              *)
(* _apply_reset_flags_before_widgets, which the file does not define; by   *)
(* the flags it serves (reset_hand_inputs, reset_pen_inputs) it resets the *)
(* inputs of the two forms, which every submit here draws afresh.          *)
(***************************************************************************)
MaxUILog == 17       \* the live log holds at most this many events
MaxUIScored == 1     \* of which all but this many, the first ones, are draws

\* Settings(), lines 85-106
DefaultSettings ==
    Named(MkSettings(300, 100, SeatList(0, 1, 2, 3), TRUE, TRUE, 0, 0, 0),
          DefaultPlayers)

\* lines 1035-1041 and 1098-1104: the dict a hand submit builds
UIHand(res, w, l, tai) == [HandRec(res, w, l, Int_(tai)) EXCEPT !.type = "hand"]
\* lines 1131-1137: the dict the penalty submit builds
UIPenalty(pt, off, vic, amt) ==
    [PenRec(pt, Int_(off), Int_(vic), Int_(amt)) EXCEPT !.type = "penalty"]

UIHands == {UIHand("Draw", Bad, Bad, 0), UIHand("SelfDraw", Int_(0), Bad, 1)}
UIPenalties == {UIPenalty("FalseWin", 1, 0, 300)}
UISeats == 0 .. 2

Fits(E) ==
    /\ Len(E) <= MaxUILog
    /\ \A i \in DOMAIN E : i > MaxUIScored => E[i].result = "Draw"

\* line 961, on the page rendered last
is_game_over == returned.rw >= 4
\* line 958
mj_active == hand_active

\* st.rerun(): the script runs again from the top, compute_game_state
\* (line 953) is entered with the session's settings and live log
Rerun(handler, s, E) ==
    /\ who' = handler
    /\ Load(Enter(Ctx, s, E))
    /\ returned' = IF handler = "swap" THEN returned ELSE NoOutput
    /\ UNCHANGED daily

\* supabase_save: the snapshot (lines 208-220) holds the session's flag
Saved(ha) == parked' = <<ha>>

SwapSeats_copy(sp, o, i) == [sp EXCEPT ![o] = sp[i]]

\* line 872: the players of the two seats change places
SwapSeats(sp, o, i) == [sp EXCEPT ![o] = sp[i], ![i] = sp[o]]

InitUI ==
    /\ who = "load"
    /\ Holds(Fresh(DefaultSettings, <<>>))
    /\ parked = <<>> /\ returned = NoOutput
    /\ NoDaily /\ NoUI

UINormalize == who # "idle" /\ app_Normalize
UIIterate == who # "idle" /\ app_Iterate
UIIterateIgnored == who # "idle" /\ app_IterateIgnored

\* lines 953-966: compute_game_state has returned; when the match is over
\* the flags are forced off; the page is rendered
UIRender ==
    /\ pc = "loop" /\ idx = Len(events)
    /\ pc' = "done" /\ who' = "idle"
    /\ returned' = app_Output
    /\ IF rw >= 4
       THEN hand_active' = FALSE /\ seat_locked' = FALSE
       ELSE UNCHANGED <<hand_active, seat_locked>>
    /\ UNCHANGED <<locals, events_raw, events, ledger, trace, parked, daily,
                   selected_seat>>

\* lines 971-977
StartMatch ==
    /\ pc = "done" /\ ~mj_active
    /\ hand_active' = TRUE /\ seat_locked' = TRUE /\ selected_seat' = None
    /\ Saved(TRUE)
    /\ Rerun("start", settings, events_raw)

\* lines 915-918 of end_current_session: the live log is emptied
EndSession(handler) ==
    /\ events_raw # <<>>
    /\ selected_seat' = None /\ seat_locked' = FALSE /\ hand_active' = FALSE
    /\ Saved(FALSE)
    /\ Rerun(handler, settings, <<>>)

\* lines 980-986
EndMatch == pc = "done" /\ mj_active /\ EndSession("end")

\* lines 1218-1224
EndSessionBottom == pc = "done" /\ EndSession("end_bottom")

\* lines 854-878: a seat button
SeatClick(i) ==
    /\ pc = "done"
    /\ UNCHANGED <<hand_active, seat_locked>>
    /\ IF seat_locked
       THEN /\ selected_seat' = IF selected_seat = i THEN None ELSE i
            /\ UNCHANGED parked
            /\ Rerun("seat", settings, events_raw)
       ELSE IF selected_seat = None
            THEN /\ selected_seat' = i
                 /\ UNCHANGED parked
                 /\ Rerun("seat", settings, events_raw)
            ELSE /\ selected_seat' = None
                 /\ Saved(hand_active)
                 /\ Rerun("swap",
                          [settings EXCEPT !.seat_players =
                              SwapSeats(settings.seat_players, selected_seat, i)],
                          events_raw)

\* lines 1030-1046: the quick panel under the seat map
QuickSubmit(e) ==
    /\ pc = "done" /\ selected_seat # None /\ ~is_game_over
    /\ Fits(Append(events_raw, e))
    /\ selected_seat' = None
    /\ UNCHANGED <<hand_active, seat_locked>>
    /\ Saved(hand_active)
    /\ Rerun("quick", settings, Append(events_raw, e))

\* lines 1094-1114
SubmitHand(e) ==
    /\ pc = "done" /\ ~is_game_over
    /\ Fits(Append(events_raw, e))
    /\ UNCHANGED ui
    /\ Saved(hand_active)
    /\ Rerun("hand", settings, Append(events_raw, e))

\* lines 1126-1143
SubmitPenalty(e) ==
    /\ pc = "done" /\ ~is_game_over
    /\ Fits(Append(events_raw, e))
    /\ UNCHANGED ui
    /\ Saved(hand_active)
    /\ Rerun("penalty", settings, Append(events_raw, e))

\* lines 1055-1060
ToggleLock ==
    /\ pc = "done" /\ ~mj_active
    /\ seat_locked' = ~seat_locked /\ selected_seat' = None
    /\ UNCHANGED hand_active
    /\ Saved(hand_active)
    /\ Rerun("toggle", settings, events_raw)

\* lines 1146-1150
UndoLast ==
    /\ pc = "done" /\ events_raw # <<>>
    /\ UNCHANGED ui
    /\ Saved(hand_active)
    /\ Rerun("undo", settings, SubSeq(events_raw, 1, Len(events_raw) - 1))

\* lines 1152-1157
ClearEvents ==
    /\ pc = "done"
    /\ UNCHANGED ui
    /\ Saved(hand_active)
    /\ Rerun("clear_events", settings, <<>>)

\* lines 1185-1189 and 223-240: the snapshot saved last is loaded; settings,
\* live log and archive are the session's, every handler that changes them
\* having saved them
Reload ==
    /\ pc = "done" /\ parked # <<>>
    /\ hand_active' = parked[1] /\ seat_locked' = parked[1]
    /\ UNCHANGED <<selected_seat, parked>>
    /\ Rerun("reload", settings, events_raw)

\* lines 1205-1207 and 926-946
NewGame ==
    /\ pc = "done"
    /\ selected_seat' = None /\ hand_active' = FALSE /\ seat_locked' = FALSE
    /\ Saved(FALSE)
    /\ Rerun("new_game", DefaultSettings, <<>>)

\* lines 1226-1234
ClearCurrent ==
    /\ pc = "done"
    /\ seat_locked' = FALSE
    /\ UNCHANGED <<hand_active, selected_seat>>
    /\ Saved(hand_active)
    /\ Rerun("clear_current", settings, <<>>)

\* lines 1236-1247
ClearAll ==
    /\ pc = "done"
    /\ selected_seat' = None /\ hand_active' = FALSE /\ seat_locked' = FALSE
    /\ Saved(FALSE)
    /\ Rerun("clear_all", settings, <<>>)

\* page_settings lines 772 and 790-800: the draw rule is toggled and saved,
\* and the record page is opened again
SaveDrawRule ==
    /\ pc = "done"
    /\ UNCHANGED ui
    /\ Saved(hand_active)
    /\ Rerun("settings",
             [settings EXCEPT !.draw_keeps_dealer = ~settings.draw_keeps_dealer],
             events_raw)

NextUI ==
    \/ UINormalize
    \/ UIIterate
    \/ UIIterateIgnored
    \/ UIRender
    \/ StartMatch
    \/ EndMatch
    \/ EndSessionBottom
    \/ \E i \in UISeats : SeatClick(i)
    \/ \E e \in UIHands : QuickSubmit(e)
    \/ \E e \in UIHands : SubmitHand(e)
    \/ \E e \in UIPenalties : SubmitPenalty(e)
    \/ ToggleLock
    \/ UndoLast
    \/ ClearEvents
    \/ Reload
    \/ NewGame
    \/ ClearCurrent
    \/ ClearAll
    \/ SaveDrawRule

SpecUI == InitUI /\ [][NextUI]_vars

(***************************************************************************)
(* Properties.                                                             *)
(***************************************************************************)
Sum4(f) == f[0] + f[1] + f[2] + f[3]
Winner(e) == safe_int(GetNone(e.winner_id), 0 - 1)
Loser(e) == safe_int(GetNone(e.loser_id), 0 - 1)
Offender(e) == safe_int(Get(e.offender_id, Int_(0)), 0)
Victim(e) == safe_int(Get(e.victim_id, Int_(0)), 0)
IsWin(e) == e.type = "hand" /\ e.result \in {"SelfDraw", "Discard", "Hu"}
IsDiscard(e) == e.type = "hand" /\ e.result \in {"Discard", "Hu"}
IsFoul(e) == e.type = "penalty" /\ e.p_type \in {"FalseWin", "FalseSelfDraw"}

\* C1 (zero-sum): the delta vector of every processed event sums to 0, and so
\* do the four running balances, in the state and in the ledger row.
C1_ZeroSum == Sum4(delta) = 0 /\ Sum4(cum) = 0 /\ Sum4(row.bal) = 0

\* C2 (monotonic rake): the rake collected never decreases from one event to
\* the next and never exceeds the configured cap.
C2_MonotonicRake ==
    [][/\ d_acc <= settings.dong_cap_total
       /\ d_acc' >= d_acc
       /\ d_acc' <= settings'.dong_cap_total]_vars

\* C2 witness: a third self-draw was applied with the cap already reached.
C2_RakeCapReached ==
    /\ ev.result = "SelfDraw"
    /\ d_acc = settings.dong_cap_total /\ d_acc > 0
    /\ stats[0]["SelfDraw"] + stats[1]["SelfDraw"] = 3
    /\ Sum4(delta) = 0 /\ delta[settings.host_player_id] < 0

\* C3 (dealer cycle): from one event to the next the dealer seat stays or
\* becomes (ds + 1) mod 4; rw grows by exactly 1 exactly when the seat wraps
\* from 3 to 0 and otherwise stays.
C3_DealerCycle ==
    [][/\ (ds' = ds \/ ds' = (ds + 1) % 4)
       /\ (rw' = rw \/ rw' = rw + 1)
       /\ (rw' = rw + 1 <=> (ds = 3 /\ ds' = 0))]_vars

\* C3 witness: the event labelled seat 4 of the East round wrapped the seat.
C3_Wrapped ==
    /\ rw = 1 /\ ds = 0 /\ dr = 0
    /\ row.num = idx /\ row.label = [kind |-> "hand", wind |-> 0, seat |-> 4]

\* C4 (termination idempotence): once rw = 4 every further event leaves the
\* balances, ds, dr and rw as they are.
C4_TerminationIdempotent ==
    [][rw = 4 => (cum' = cum /\ ds' = ds /\ dr' = dr /\ rw' = rw)]_vars

\* C4 witness: a self-draw arrived after the match ended, balances not all 0.
C4_EventAfterEnd ==
    /\ rw = 4 /\ row.label.kind = "ended" /\ row.num = idx
    /\ ev.result = "SelfDraw"
    /\ cum # Zero

\* C5 (match length): the advances applied so far number 4*rw + ds, and rw is
\* 4 exactly when 16 advances have been applied.
C5_MatchLength ==
    /\ nadv = 4 * rw + ds
    /\ (rw = 4 <=> nadv = 16)
    /\ rw <= 4

\* C5 witness: the 16th advance ended the match later than the 16th event, so
\* events that do not advance (retains, no-ops) were interleaved.
C5_EndedAfterRetains ==
    /\ rw = 4 /\ nadv = 16 /\ idx > 16
    /\ row.label.kind = "hand" /\ row.num = idx
    /\ StatTotal(stats) > 0

\* C6 (no fatal error): no event makes the invocation abort, and the ledger
\* holds one row per event taken, the last numbered with the event's position.
C6_NoFatalError == ~aborted /\ nrows = idx /\ row.num = nrows

\* C7 (invalid slot is a no-op): when the event's payee (winner, victim) is not
\* in 0..3 no player is credited, when its payer (discarder, offender) is not
\* in 0..3 no player is debited, and the event's row is produced.
C7_InvalidSlotNoOp ==
    LET e == ev_to_dict(ev)
        payee == IF IsWin(e) THEN Winner(e)
                 ELSE IF IsFoul(e) /\ e.p_type = "FalseWin" THEN Victim(e)
                 ELSE 0
        payer == IF IsDiscard(e) THEN Loser(e)
                 ELSE IF IsFoul(e) THEN Offender(e)
                 ELSE 0
    IN  idx > 0 =>
          /\ ~Valid(payee) =>
                ~aborted /\ row.num = idx /\ \A p \in Players : delta[p] <= 0
          /\ ~Valid(payer) =>
                ~aborted /\ row.num = idx /\ \A p \in Players : delta[p] >= 0

\* C8 (all or nothing): an event that debits some player credits some player
\* and conversely, and a self-draw that moves money debits exactly the three
\* players who pay.
C8_AllOrNothing ==
    LET deb == {p \in Players : delta[p] < 0}
        cred == {p \in Players : delta[p] > 0}
    IN  ~aborted =>
          /\ (deb = {} <=> cred = {})
          /\ (ev.result = "SelfDraw" /\ deb # {}) => Cardinality(deb) = 3

\* C9 (unknown records never advance state): a record with neither result nor
\* p_type gets a row and changes none of rw, ds, dr, d_acc, balances, counters.
C9_UnknownNeverAdvances ==
    [][(idx' = idx + 1 /\ ev'.result = Absent /\ ev'.p_type = Absent) =>
          /\ ~aborted' /\ nrows' = nrows + 1
          /\ rw' = rw /\ ds' = ds /\ dr' = dr /\ d_acc' = d_acc
          /\ cum' = cum /\ stats' = stats]_vars

Missing(x) == x.tag \in {"absent", "bad"}
Malformed(raw) ==
    LET e == ev_to_dict(raw)
    IN  \/ /\ e.type = "hand" /\ e.result = "SelfDraw"
           /\ (Missing(e.winner_id) \/ Missing(e.tai))
        \/ /\ IsDiscard(e)
           /\ (Missing(e.winner_id) \/ Missing(e.loser_id) \/ Missing(e.tai))
        \/ /\ e.type = "penalty" /\ e.p_type = "FalseWin"
           /\ (Missing(e.offender_id) \/ Missing(e.victim_id) \/ Missing(e.amount))
        \/ /\ e.type = "penalty" /\ e.p_type = "FalseSelfDraw"
           /\ (Missing(e.offender_id) \/ Missing(e.amount))

\* C10 (malformed events are diagnostic-only): a Hand or Penalty record with a
\* required field missing or non-numeric gets a row, changes no balance and
\* does not abort.
C10_MalformedDiagnosticOnly ==
    [][(idx' = idx + 1 /\ Malformed(ev')) =>
          (~aborted' /\ nrows' = nrows + 1 /\ cum' = cum)]_vars

(***************************************************************************)
(* Settlement rules, stated over one step: the unprimed rw, ds, dr, d_acc  *)
(* are the state the record is applied in, delta' is what it moved.        *)
(***************************************************************************)
Points(e) == safe_int(Get(e.tai, Int_(0)), 0)
Amount(points) == settings.base + points * settings.tai_value
RunBonus == 1 + 2 * dr
Dealer == settings.seat_players[ds]

\* the step applies a hand record with one of these results before the end
AppliesHand(results) ==
    idx' = idx + 1 /\ ~aborted' /\ rw < 4 /\ IsHand(ev', results)
AppliesPenalty(kinds) ==
    idx' = idx + 1 /\ ~aborted' /\ rw < 4 /\ IsPenalty(ev', kinds)

Retains == rw' = rw /\ ds' = ds /\ dr' = dr + 1
Advances ==
    /\ ds' = (ds + 1) % 4 /\ dr' = 0
    /\ rw' = IF ds = 3 THEN rw + 1 ELSE rw
Stays == rw' = rw /\ ds' = ds /\ dr' = dr

\* delta' with the transfer of the step's rake from w to the house undone
BeforeRake(w) ==
    [p \in Players |->
        delta'[p] + (IF p = w THEN d_acc' - d_acc ELSE 0)
                  - (IF p = settings.host_player_id THEN d_acc' - d_acc ELSE 0)]

\* C11 (self-draw by the dealer): with effective points = points + 1 + 2*dr
\* when auto_dealer_bonus is set and points otherwise, each of the other three
\* players is debited base + effective * tai_value and the dealer is credited
\* three times that, before the rake; the dealer retains (dr + 1, ds and rw
\* unchanged).
C11_DealerSelfDraw ==
    [][\A w \in Players :
          (AppliesHand({"SelfDraw"}) /\ Winner(ev_to_dict(ev')) = w /\ w = Dealer) =>
             LET eff == Points(ev_to_dict(ev'))
                        + (IF settings.auto_dealer_bonus THEN RunBonus ELSE 0)
             IN  /\ BeforeRake(w) =
                      [p \in Players |-> IF p = w THEN 3 * Amount(eff)
                                         ELSE 0 - Amount(eff)]
                 /\ Retains]_vars

\* C11 witness: the dealer self-drew in a second consecutive deal with the
\* bonus on and no rake, and was paid three times amount(points + 3).
C11_DealerSelfDrawInRun ==
    /\ IsHand(ev, {"SelfDraw"}) /\ Winner(ev_to_dict(ev)) = dealer_pid
    /\ dr = 2 /\ settings.auto_dealer_bonus /\ settings.dong_per_self_draw = 0
    /\ delta[dealer_pid] = 3 * Amount(Points(ev_to_dict(ev)) + 3)

\* the player who dealt the hand the last advance ended
PrevDealer == settings.seat_players[(ds + 3) % 4]

SelfDraws == stats[0]["SelfDraw"] + stats[1]["SelfDraw"]
             + stats[2]["SelfDraw"] + stats[3]["SelfDraw"]

\* what a self-draw by w moves between the players before the rake
SelfDrawPayments(w, pts) ==
    IF w = Dealer
    THEN LET A == Amount(pts + (IF settings.auto_dealer_bonus THEN RunBonus ELSE 0))
         IN  [p \in Players |-> IF p = w THEN 3 * A ELSE 0 - A]
    ELSE [p \in Players |->
            IF p = w THEN Amount(pts + RunBonus) + 2 * Amount(pts)
            ELSE IF p = Dealer THEN 0 - Amount(pts + RunBonus)
            ELSE 0 - Amount(pts)]

C14_DealerDiscardWin ==
    [][\A w, l \in Players :
          (/\ AppliesHand({"Discard", "Hu"})
           /\ Winner(ev_to_dict(ev')) = w /\ Loser(ev_to_dict(ev')) = l
           /\ w # l /\ w = Dealer) =>
             LET A == Amount(Points(ev_to_dict(ev'))
                             + (IF settings.auto_dealer_bonus THEN RunBonus ELSE 0))
             IN  /\ delta' = [p \in Players |-> IF p = w THEN A
                                                ELSE IF p = l THEN 0 - A ELSE 0]
                 /\ d_acc' = d_acc
                 /\ Retains]_vars

\* C14 witness: the dealer won on a discard in a second consecutive deal with
\* the bonus on and was paid amount(points + 3) by the discarder alone.
C14_DealerDiscardWinInRun ==
    /\ IsDiscard(ev_to_dict(ev)) /\ Winner(ev_to_dict(ev)) = dealer_pid
    /\ Loser(ev_to_dict(ev)) \in Players \ {dealer_pid}
    /\ dr = 2 /\ settings.auto_dealer_bonus
    /\ delta[dealer_pid] = Amount(Points(ev_to_dict(ev)) + 3)
    /\ delta[Loser(ev_to_dict(ev))] = 0 - delta[dealer_pid]

C16_SameWinnerAndDiscarder ==
    [][(/\ AppliesHand({"Discard", "Hu"})
        /\ Winner(ev_to_dict(ev')) = Loser(ev_to_dict(ev'))) =>
          /\ nrows' = nrows + 1 /\ row'.num = idx' /\ row'.desc = "error_same"
          /\ delta' = Zero /\ cum' = cum /\ row'.bal = cum
          /\ stats' = stats /\ d_acc' = d_acc
          /\ Stays]_vars

\* C16 witness: such a record was rejected while the dealer was in a run,
\* and the run is still what the one retain before it made it.
C16_RejectedInRun ==
    /\ IsDiscard(ev_to_dict(ev))
    /\ Winner(ev_to_dict(ev)) = Loser(ev_to_dict(ev))
    /\ Winner(ev_to_dict(ev)) \in Players
    /\ row.desc = "error_same" /\ nrows = idx
    /\ dr = 1 /\ ds = 0 /\ nadv = 0 /\ idx > 1

\* C17 (draw): a draw moves no money, changes no counter and takes no rake;
\* the dealer retains (dr + 1) when draw_keeps_dealer is set and advances
\* otherwise, in every round wind below 4.
C17_Draw ==
    [][AppliesHand({"Draw"}) =>
          /\ delta' = Zero /\ cum' = cum
          /\ stats' = stats /\ d_acc' = d_acc
          /\ nrows' = nrows + 1
          /\ IF settings.draw_keeps_dealer THEN Retains ELSE Advances]_vars

\* C17 witness: a draw in the last deal of the North round advanced the
\* dealer and ended the match.
C17_DrawEndsMatch ==
    /\ IsHand(ev, {"Draw"}) /\ ~settings.draw_keeps_dealer
    /\ row.label = hand_label(3, 3) /\ row.desc = "draw"
    /\ rw = 4 /\ ds = 0 /\ dr = 0 /\ delta = Zero

PenaltyAmount(e) == safe_int(Get(e.amount, Int_(0)), 0)

\* C18 (false win): the offender is debited and the victim credited exactly
\* the record's amount, whatever base, tai_value and dr are; the dealer
\* advances if the offender is the dealer and retains (dr + 1) otherwise.
C18_FalseWin ==
    [][\A off, vic \in Players :
          (/\ AppliesPenalty({"FalseWin"})
           /\ Offender(ev_to_dict(ev')) = off /\ Victim(ev_to_dict(ev')) = vic) =>
             LET amt == PenaltyAmount(ev_to_dict(ev'))
             IN  /\ delta' = [p \in Players |->
                                (IF p = vic THEN amt ELSE 0)
                                - (IF p = off THEN amt ELSE 0)]
                 /\ d_acc' = d_acc
                 /\ IF off = Dealer THEN Advances ELSE Retains]_vars

\* C18 witness: a dealer in a second consecutive deal declared a false win,
\* paid the victim the amount and nothing more, and lost the deal.
C18_DealerFalseWinInRun ==
    /\ IsPenalty(ev, {"FalseWin"}) /\ Offender(ev_to_dict(ev)) = PrevDealer
    /\ Victim(ev_to_dict(ev)) \in Players \ {PrevDealer}
    /\ idx > 1 /\ nadv = 1 /\ ds = 1 /\ dr = 0
    /\ PenaltyAmount(ev_to_dict(ev)) > 0
    /\ delta[PrevDealer] = 0 - PenaltyAmount(ev_to_dict(ev))
    /\ delta[Victim(ev_to_dict(ev))] = PenaltyAmount(ev_to_dict(ev))

\* C19 (false self-draw): a dealer offender is debited 3 * amount, each other
\* player is credited amount, and the dealer advances; a non-dealer offender
\* pays the dealer amount + (1 + 2*dr) * tai_value and each of the two other
\* players amount, is debited the total, and the dealer retains (dr + 1).
C19_FalseSelfDraw ==
    [][\A off \in Players :
          (AppliesPenalty({"FalseSelfDraw"}) /\ Offender(ev_to_dict(ev')) = off) =>
             LET amt == PenaltyAmount(ev_to_dict(ev'))
                 toDealer == amt + RunBonus * settings.tai_value
             IN  /\ d_acc' = d_acc
                 /\ IF off = Dealer
                    THEN /\ delta' = [p \in Players |->
                                        IF p = off THEN 0 - 3 * amt ELSE amt]
                         /\ Advances
                    ELSE /\ delta' = [p \in Players |->
                                        IF p = off THEN 0 - (toDealer + 2 * amt)
                                        ELSE IF p = Dealer THEN toDealer
                                        ELSE amt]
                         /\ Retains]_vars

\* C19 witness: a non-dealer declared a false self-draw against a dealer in
\* a second consecutive deal and paid the dealer amount + 3 * tai_value.
C19_NonDealerFalseSelfDrawInRun ==
    /\ IsPenalty(ev, {"FalseSelfDraw"})
    /\ Offender(ev_to_dict(ev)) \in Players \ {dealer_pid}
    /\ dr = 2 /\ settings.tai_value > 0 /\ PenaltyAmount(ev_to_dict(ev)) > 0
    /\ delta[dealer_pid] = PenaltyAmount(ev_to_dict(ev)) + 3 * settings.tai_value
    /\ delta[Offender(ev_to_dict(ev))] =
          0 - (3 * PenaltyAmount(ev_to_dict(ev)) + 3 * settings.tai_value)

\* C20 (the dealer bonus is flag-gated): with auto_dealer_bonus unset, every
\* payment of every self-draw and discard win equals amount(points): a
\* self-draw debits each of the three others amount(points) before the rake,
\* a discard win moves amount(points) from the discarder to the winner.
C20_BonusFlagGated ==
    [][\A w \in Players :
          (/\ AppliesHand({"SelfDraw", "Discard", "Hu"})
           /\ ~settings.auto_dealer_bonus
           /\ Winner(ev_to_dict(ev')) = w) =>
             LET e == ev_to_dict(ev')
                 A == Amount(Points(e))
             IN  /\ e.result = "SelfDraw" =>
                       BeforeRake(w) = [p \in Players |-> IF p = w THEN 3 * A
                                                          ELSE 0 - A]
                 /\ (IsDiscard(e) /\ Loser(e) \in Players \ {w}) =>
                       delta' = [p \in Players |-> IF p = w THEN A
                                                   ELSE IF p = Loser(e) THEN 0 - A
                                                   ELSE 0]]_vars

\* what the record e, applied in the current state, adds to counter k of p
Counted(e, p, k) ==
    IF \/ /\ k = "SelfDraw" /\ e.type = "hand" /\ e.result = "SelfDraw"
          /\ Winner(e) = p
       \/ /\ k = "Hu" /\ IsDiscard(e) /\ Winner(e) # Loser(e) /\ Winner(e) = p
       \/ /\ k = "Discard" /\ IsDiscard(e) /\ Winner(e) # Loser(e) /\ Loser(e) = p
       \/ /\ k = "FalseWin" /\ e.type = "penalty" /\ e.p_type = "FalseWin"
          /\ Offender(e) = p
       \/ /\ k = "FalseSelfDraw" /\ e.type = "penalty" /\ e.p_type = "FalseSelfDraw"
          /\ Offender(e) = p
    THEN 1 ELSE 0

\* C21 (counters count applied events): from their initial 0, every
\* record adds exactly 1 to the self-draw / win / fed-discard counter of its
\* winner / winner / discarder, or to the false-win / false-self-draw counter
\* of its offender, when it is applied before the end of the match; a draw, a
\* rejected or unknown record, and a record after the end add nothing.
C21_CountersCountApplied ==
    [][idx' = idx + 1 =>
          stats' = [p \in Players |-> [k \in StatKeys |->
                      stats[p][k]
                      + (IF rw < 4 /\ ~aborted'
                         THEN Counted(ev_to_dict(ev'), p, k) ELSE 0)]]]_vars

\* C21 witness: three counted events were applied, the match ran to its end,
\* and a further self-draw record was listed without being counted.
C21_CountedThenIgnored ==
    /\ Ended(rw) /\ IsHand(ev, {"SelfDraw"}) /\ row.label.kind = "ended"
    /\ StatTotal(stats) = 3
    /\ stats[1]["Hu"] = 1 /\ stats[0]["Discard"] = 1
    /\ stats[0]["FalseWin"] + stats[1]["FalseSelfDraw"] = 1

\* C29 (ledger labels): a row carries the ended label exactly when its record
\* arrived with rw = 4; a hand or penalty row processed before that carries
\* the round wind and the dealer seat (counted from 1) in force before the
\* record's own transition, so the record whose advance ends the match is
\* labelled North 4.
C29_LedgerLabels ==
    [][(idx' = idx + 1 /\ ~aborted') =>
          /\ row'.num = idx'
          /\ row'.label.kind = "ended" <=> rw = 4
          /\ (rw < 4 /\ ev_to_dict(ev').type \in {"hand", "penalty"}) =>
                row'.label = [kind |-> "hand", wind |-> rw, seat |-> ds + 1]
          /\ (rw' = 4 /\ rw = 3) =>
                row'.label = [kind |-> "hand", wind |-> 3, seat |-> 4]]_vars

\* C29 witness: a discard win in the last deal of the North round ended the
\* match and its row is labelled North 4, not ended.
C29_LastDealLabelled ==
    /\ IsDiscard(ev_to_dict(ev)) /\ Winner(ev_to_dict(ev)) # Loser(ev_to_dict(ev))
    /\ rw = 4 /\ ds = 0 /\ dr = 0 /\ row.num = idx
    /\ row.label = [kind |-> "hand", wind |-> 3, seat |-> 4]

\* C30 (dealer run): dr is never negative; a record leaves (rw, ds, dr) as it
\* is, or retains (dr + 1 and nothing else), or advances (dr = 0), and never
\* more than one of these, so dr counts the retains since the last advance.
C30_DealerRun ==
    [][/\ dr >= 0 /\ dr' >= 0
       /\ idx' = idx + 1 =>
             /\ Stays \/ Retains \/ Advances
             /\ nadv' = nadv + (IF Advances THEN 1 ELSE 0)
             /\ nadv' = nadv => dr' \in {dr, dr + 1}]_vars

\* C30 witness: after at least one advance the dealer has retained twice.
C30_TwoRetainsAfterAdvance ==
    /\ dr = 2 /\ nadv > 0 /\ ds > 0
    /\ row.label = [kind |-> "hand", wind |-> rw, seat |-> ds + 1]

\* the arguments of an invocation
Input(w) ==
    IF w = who THEN <<settings, events_raw>>
    ELSE <<parked[w].settings, parked[w].events_raw>>

FieldTag(e) ==
    IF e.result # Absent THEN "hand"
    ELSE IF e.p_type # Absent THEN "penalty"
    ELSE "unknown"

\* C24: the normalised list has the length and order of the input, and its
\* i-th element is the i-th record tagged hand if it has a result, else
\* penalty if it has a p_type, else unknown; no other tag appears.
C24_Normalizer ==
    pc # "start" =>
        /\ Len(events) = Len(events_raw)
        /\ \A i \in 1 .. Len(events) :
              /\ events[i] = [events_raw[i] EXCEPT !.type = FieldTag(events_raw[i])]
              /\ events[i].type \in {"hand", "penalty", "unknown"}

\* C23: fold / undo.  A2 ran on the first k records of the list of A1 with
\* the same configuration: its ledger is the first k rows of the ledger of
\* A1, and its final balances and dealer state are those A1 had after row k
\* (those of the start for k = 0).
C23_FoldUndo ==
    LET full == returned["A1"]
        part == returned["A2"]
        E == Input("A1")[2]
        k == Len(Input("A2")[2])
    IN  (/\ full.done /\ part.done
         /\ Input("A2")[1] = Input("A1")[1]
         /\ k <= Len(E) /\ Input("A2")[2] = SubSeq(E, 1, k))
        => /\ ~full.raised /\ ~part.raised
           /\ Len(full.ledger_df) = Len(E)
           /\ part.ledger_df = SubSeq(full.ledger_df, 1, k)
           /\ k > 0 =>
                /\ <<part.rw, part.ds, part.dr>> =
                      <<full.debug_steps[k].rw, full.debug_steps[k].ds,
                        full.debug_steps[k].dr>>
                /\ \A p \in Players :
                      part.sum_df[p + 1].total = full.debug_steps[k].cum[p]
           /\ k = 0 =>
                /\ <<part.rw, part.ds, part.dr>> = <<0, 0, 0>>
                /\ \A p \in Players : part.sum_df[p + 1].total = 0

\* the sum of player p's deltas over the first k steps of a trace
RECURSIVE DeltaSum(_, _, _)
DeltaSum(steps, k, p) ==
    IF k = 0 THEN 0 ELSE DeltaSum(steps, k - 1, p) + steps[k].delta[p]

\* C28: ledger and summary agree.  In every result returned, row k of the
\* ledger holds for each player the sum of that player's deltas over events
\* 1..k, each player's summary balance is the balance of the last row, and
\* for the empty list every balance is 0, the state (0,0,0) and the rake 0.
C28_LedgerSummaryAgree ==
    \A w \in Invocations :
        LET out == returned[w]
            names == Input(w)[1].players
            len == Len(out.ledger_df)
        IN  (out.done /\ ~out.raised) =>
              /\ len = Len(Input(w)[2])
              /\ \A k \in 1 .. len : \A p \in Players :
                    out.ledger_df[k].cols[names[p]] =
                        DeltaSum(out.debug_steps, k, p)
              /\ len > 0 => \A p \in Players :
                    out.sum_df[p + 1].total = out.ledger_df[len].cols[names[p]]
              /\ len = 0 =>
                    /\ \A p \in Players : out.sum_df[p + 1].total = 0
                    /\ <<out.rw, out.ds, out.dr, out.d_acc>> = <<0, 0, 0, 0>>

\* what player p holds over the archived matches: the p-th row of each
\* archived summary
RECURSIVE ArchivedTotal(_, _)
ArchivedTotal(sess, p) ==
    IF sess = <<>> THEN 0
    ELSE Head(sess).sum_df[p + 1].total + ArchivedTotal(Tail(sess), p)
RECURSIVE ArchivedCount(_, _, _)
ArchivedCount(sess, p, k) ==
    IF sess = <<>> THEN 0
    ELSE Head(sess).stats_df[p + 1].counts[k] + ArchivedCount(Tail(sess), p, k)

\* C26: aggregation is straight addition keyed by player.  The combined
\* balance shown for each player is the sum of that player's balance in every
\* archived summary plus the live summary, and each of the five combined
\* counters likewise; nothing is dropped or given to another player.
C26_StraightAddition ==
    \A p \in Players :
        LET nm == settings.players[p]
        IN  /\ daily_sum[nm] = ArchivedTotal(sessions, p) + cum[p]
            /\ \A k \in StatKeys :
                  daily_stats[nm][k] = ArchivedCount(sessions, p, k) + stats[p][k]

\* C31: state bounds and unique terminal state.  In every reachable state the
\* round wind is in 0..4 and the dealer seat in 0..3, and whenever the round
\* wind is 4 the state is exactly (4, 0, 0).
C31_StateBounds ==
    /\ rw \in 0 .. 4
    /\ ds \in 0 .. 3
    /\ rw = 4 => (ds = 0 /\ dr = 0)

\* C31 witness: a self-draw ended the match after the dealer had held the seat.
C31_EndedBySelfDraw ==
    /\ <<rw, ds, dr>> = <<4, 0, 0>>
    /\ IsHand(ev, {"SelfDraw"}) /\ row.num = idx /\ row.label = hand_label(3, 3)
    /\ idx > 16

\* a hand record whose result is none of self-draw / discard win / draw, or a
\* penalty record whose p_type is neither false win nor false self-draw
UnrecognisedKind(e) ==
    \/ e.result # Absent /\ ~IsHand(e, {"Draw", "SelfDraw", "Discard", "Hu"})
    \/ /\ e.result = Absent /\ e.p_type # Absent
       /\ ~IsPenalty(e, {"FalseWin", "FalseSelfDraw"})

\* C32: unrecognised kinds freeze the state.  A hand with an unknown result
\* and a penalty with an unknown kind change no balance and no counter and
\* leave round wind, dealer seat and dealer run as they were.
C32_UnrecognisedFreezes ==
    [][(idx' = idx + 1 /\ UnrecognisedKind(ev')) =>
          /\ cum' = cum /\ stats' = stats
          /\ rw' = rw /\ ds' = ds /\ dr' = dr]_vars

\* C33: post-termination frame.  Once the round wind is 4, a further record
\* of any kind leaves every counter and the rake collected as they are, as
\* well as the balances and the dealer state; all it does is add one ledger
\* row (labelled as after the end, showing the balances) and one trace line.
C33_PostTerminationFrame ==
    [][(rw = 4 /\ idx' = idx + 1) =>
          /\ stats' = stats /\ d_acc' = d_acc
          /\ cum' = cum /\ <<rw', ds', dr'>> = <<rw, ds, dr>>
          /\ ~aborted'
          /\ nrows' = nrows + 1 /\ ntrace' = ntrace + 1
          /\ row'.label.kind = "ended" /\ row'.bal = cum]_vars

\* C33 witness: a false self-draw penalty arrived after the end of a match in
\* which rake had been collected.
C33_PenaltyAfterEnd ==
    /\ rw = 4 /\ IsPenalty(ev, {"FalseSelfDraw"})
    /\ row.label.kind = "ended" /\ row.num = idx /\ nrows = idx /\ ntrace = idx
    /\ d_acc > 0 /\ StatTotal(stats) > 0

\* C34: the two copies of the settlement function agree.  On the same
\* configuration (integer base, tai value and rake amounts) and the same
\* event list, compute_game_state of mahjong_score.py returns what
\* compute_game_state of engine.py returned: ledger, summary, statistics,
\* final state, rake total and trace, or both raise.
C34_CopiesAgree ==
    returned["app"].done =>
        /\ returned["engine"].done
        /\ Input("app") = Input("engine")
        /\ returned["app"] = returned["engine"]

\* C34 witness: both copies returned a two-row ledger of a list on which rake
\* was collected and the dealer kept the deal.
C34_BothCopiesSettled ==
    /\ returned["app"].done /\ ~returned["app"].raised
    /\ Len(returned["app"].ledger_df) = 2
    /\ returned["app"].d_acc > 0 /\ returned["app"].dr > 0
    /\ returned["app"].sum_df[1].total # 0

\* C35: archiving preserves the running totals.  end_current_session appends
\* exactly one archive entry, holding the summary and the statistics of the
\* live match, and empties the live log; every combined balance and every
\* combined counter shown is the same after it as before it.
C35_ArchivePreservesTotals ==
    [][sessions' # sessions =>
          /\ sessions' = Append(sessions,
                                [sum_df |-> SumDf(settings.players, cum),
                                 stats_df |-> StatsDf(settings.players, stats)])
          /\ events_raw' = <<>> /\ idx' = 0
          /\ cum' = Zero /\ stats' = [p \in Players |-> [k \in StatKeys |-> 0]]
          /\ daily_sum' = daily_sum
          /\ daily_stats' = daily_stats]_vars

\* C35 witness: two matches are archived, the live log is empty, and the
\* combined totals show what the archived matches moved.
C35_TwoArchived ==
    /\ Len(sessions) = 2 /\ events_raw = <<>> /\ idx = 0 /\ cum = Zero
    /\ sessions[1] # sessions[2]
    /\ daily_sum["P3"] # 0
    /\ \E nm \in DOMAIN daily_stats : daily_stats[nm]["SelfDraw"] > 0

\* C36: recording is locked after the match ends.  Once the live log replays
\* to round wind 4 no submit appends an event, so the replay of a live log
\* never meets an event after the one that ended the match.
C36_NothingAfterEnd ==
    \A i \in DOMAIN ledger : ledger[i].label.kind # "ended"

\* C37: the seat lock follows the active match.  Whenever hand_active is true
\* seat_locked is true as well.
C37_LockFollowsMatch == hand_active => seat_locked

\* C38: the seat assignment stays a bijection.  After any sequence of seat
\* clicks every player sits at exactly one of the four seats.
C38_SeatsBijection ==
    /\ DOMAIN settings.seat_players = 0 .. 3
    /\ {settings.seat_players[i] : i \in 0 .. 3} = Players

\* C38 witness: two swaps have moved three players round, and the page is
\* rendered with nothing selected.
C38_ThreeMoved ==
    /\ pc = "done" /\ selected_seat = None
    /\ settings.seat_players = SeatList(1, 2, 0, 3)

\* C39: scores follow the player, not the seat.  The summary of the live
\* match rendered after a seat swap is the summary rendered before it.
C39_SwapKeepsBalances ==
    [][(who = "swap" /\ pc = "loop" /\ pc' = "done")
          => returned'.sum_df = returned.sum_df]_vars
====
